---- MODULE Spec2Model ----
(***************************************************************************)
(* Adlocaite / Broadsign HTML5 package: the exchange client                *)
(* (package/js/adlocaite-api.js), the host display trigger                 *)
(* (package/js/broadsign-adapter.js) and the media player                  *)
(* (package/js/player.js), as state machines.                              *)
(*                                                                         *)
(* JavaScript runs one task at a time: an action below is one task (a      *)
(* callback, or an async function up to its next await).                   *)
(***************************************************************************)
EXTENDS Integers, Sequences, FiniteSets, TLC

(***************************************************************************)
(* Bounds of the model                                                     *)
(***************************************************************************)
\* largest config.maxRetries tried (0 .. MaxCfgRetries)
MaxCfgRetries == 2
\* largest number of Tracking elements of a document
MaxTracking == 3
\* largest number of Impression elements of a document
MaxImpressions == 2
\* how many errors and messages are captured
MaxCaptures == 4
\* how many times start() and stop() of the cache manager are called together
MaxCacheCalls == 6
\* how many times an interval timer of the cache manager fires
MaxTicks == 4
\* how many times the host may invoke BroadSignPlay()
MaxPlayCalls == 3
\* how many times preloadMedia is called on one player
MaxPreloads == 2
\* how many times playPreloaded is called on one player
MaxPlays == 2
\* how many times stop() is called on one player
MaxStops == 1
\* largest number of tracking URLs the document gives for an event
MaxUrls == 1
\* how many times getScreenId() is called
MaxIdCalls == 2
\* largest number of MediaFile elements in a document
MaxMediaFiles == 3

(***************************************************************************)
(* Program constants                                                       *)
(***************************************************************************)
DefaultMaxRetries == 3
DefaultRetryDelay == 1000
\* player.js:325: (this.duration || 15) * 1000
DefaultImageSeconds == 15

\* values of config.retryDelay tried (0 stands for "not configured")
RetryDelays == {0, 500}
\* HTTP statuses a response may carry
Statuses == {200, 400, 404, 500, 503}
\* the client's operations that go through makeRequest
Ops == {"requestOffer", "respondToOffer", "confirmPlayout", "getCacheableAssets"}
\* how an operation of the client ends for its caller
ApiResults == {"value", "noOffersAvailable", "clientError", "raised"}
\* the tracking events of player.js (this.trackingFired)
Events == {"impression", "start", "firstQuartile", "midpoint", "thirdQuartile", "complete"}
\* media types: video/*, image/*, anything else
MediaTypes == {"video", "image", "other"}
\* vastData.creative.duration in seconds (0: the document gives none)
VastDurations == {0, 10}
\* duration of a pre-loaded video element in seconds (0: none usable, NaN)
VideoLengths == {0, 20}
\* videoElement.currentTime at a 'timeupdate', in tenths of a second
Positions == {50, 51, 160}

VARIABLES
  \* ---- AdlocaiteAPIClient ----
  config,         \* this.config: the configuration object handed to the constructor
  maxRetries,     \* this.maxRetries
  retryDelay,     \* this.retryDelay
  apiPc,          \* where the running makeRequest is: idle, fetch, backoff, done
  apiOp,          \* the operation that called makeRequest
  retryCount,     \* the retryCount argument of the running makeRequest
  fetchCount,     \* fetch() calls made for the current operation
  delays,         \* the backoff delays waited so far, in order
  outcomes,       \* what each fetch attempt met, in order
  apiResult,      \* how the operation ended: none, value, noOffersAvailable, clientError, raised
  apiError,       \* the error raised, when apiResult = "raised"
  sentHeaders,    \* the headers of the last fetch() issued, as <<name, value>> pairs
  \* ---- BroadSignPlay ----
  playCalled,     \* window._adlocaiteBroadSignPlayCalled
  handlerSet,     \* typeof window.onBroadSignReady === 'function'
  readyCalls,     \* invocations of window.onBroadSignReady
  readyEvents,    \* 'broadsignready' events dispatched
  playCalls,      \* invocations of BroadSignPlay() by the host
  \* ---- AdlocaitePlayer ----
  player,         \* the AdlocaitePlayer object, its playPreloaded calls and timers
  nUrls,          \* tracking URLs the parsed document holds for each event
  \* ---- BroadsignAdapter.getScreenId and what it reads ----
  BroadSignObject,  \* the host's global: undefined, null, or an object with its fields
  parentWindow,     \* the parent window: self, denied, bare, framed
  screenIdParam,    \* the screen_id parameter of window.location.search
  localStorage,     \* the item adlocaite_screen_id, or the storage is unavailable
  adapter,          \* the BroadsignAdapter of part_004: screenId, getScreenIdCallCount
  packagedAdapter,  \* the BroadsignAdapter of package/js: screenId
  idLog,            \* how each getScreenId call so far ended, in order
  \* ---- VASTParser ----
  xmlDoc,           \* the document handed to parse(), by what its elements hold
  parsedData,       \* this.parsedData, and whether parse() has run or raised
  vastResult,       \* what the last getBestMediaFile / getDealId call returned
  \* ---- the lifecycle orchestrator ----
  cycle,            \* where the cycle is, the status the host reads, the steps made
  \* ---- ErrorTracking and CacheManager ----
  errorTracking,    \* the ErrorTracking object, window.Sentry and what Sentry was sent
  cacheManager      \* the CacheManager object and the interval timers it registered

apiVars == <<config, maxRetries, retryDelay, apiPc, apiOp, retryCount, fetchCount,
             delays, outcomes, apiResult, apiError, sentHeaders>>
hostVars == <<playCalled, handlerSet, readyCalls, readyEvents, playCalls>>
playerVars == <<player, nUrls>>
identityVars == <<BroadSignObject, parentWindow, screenIdParam, localStorage,
                  adapter, packagedAdapter, idLog>>
vastVars == <<xmlDoc, parsedData, vastResult>>
sideVars == <<errorTracking, cacheManager>>
otherVars == <<hostVars, playerVars, identityVars, vastVars, cycle, sideVars>>
vars == <<apiVars, hostVars, playerVars, identityVars, vastVars, cycle, sideVars>>

(***************************************************************************)
(* AdlocaiteAPIClient                                                      *)
(***************************************************************************)
\* constructor: config.maxRetries || 3
CtorMaxRetries(c) == IF c = 0 THEN DefaultMaxRetries ELSE c
\* constructor: config.retryDelay || 1000
CtorRetryDelay(c) == IF c = 0 THEN DefaultRetryDelay ELSE c

RECURSIVE Pow2(_)
Pow2(k) == IF k = 0 THEN 1 ELSE 2 * Pow2(k - 1)

\* response.ok
ResponseOk(status) == status >= 200 /\ status <= 299

\* lines 81-86: response.json(), and response.text() when that throws.
\* json() consumes the body even when parsing fails, so the text() of the
\* catch rejects with TypeError ("body stream already read").
ReadErrorBody(json) == IF json THEN "parsed" ELSE "TypeError"

\* a retry guard that is off by one
Retry5xxOffByOne(status, rc) == status >= 500 /\ rc <= maxRetries

\* line 101
Retry5xx(status, rc) == status >= 500 /\ rc < maxRetries

\* a backoff that does not grow
BackoffConstant(rc) == retryDelay

\* lines 102 and 132: this.retryDelay * Math.pow(2, retryCount)
BackoffDelay(rc) == retryDelay * Pow2(rc)

\* line 131: retryCount < this.maxRetries && err.message.includes('fetch')
RetryNetwork(rc, msgHasFetch) == rc < maxRetries /\ msgHasFetch

\* line 109
ClientError(status) == status >= 400 /\ status < 500

\* config.apiKey (line 15)
ApiKey == "pub_xxxx"

\* `Bearer ${this.apiKey}`
Bearer(k) == <<"Bearer", k>>

\* the options each operation hands to makeRequest (lines 174, 242, 301, 335):
\* a method, a body for the POSTs, never headers
OptionsOf(op) ==
  [method |-> IF op \in {"respondToOffer", "confirmPlayout"} THEN "POST" ELSE "GET",
   headers |-> {}]

\* headers taken from the options alone
HeadersFromOptions(opts) == opts.headers

\* lines 52-56: Authorization and Content-Type, then the headers of the
\* options spread over them
RequestHeaders(opts) ==
  opts.headers \cup
  {h \in {<<"Authorization", Bearer(ApiKey)>>, <<"Content-Type", "application/json">>} :
     \A o \in opts.headers : o[1] # h[1]}

\* constructor (lines 12-19) with config.maxRetries = c, config.retryDelay = d
ApiInit(c, d) ==
  /\ sentHeaders = {}
  /\ config = [maxRetries |-> c, retryDelay |-> d]
  /\ maxRetries = CtorMaxRetries(c)
  /\ retryDelay = CtorRetryDelay(d)
  /\ apiPc = "idle"
  /\ apiOp = "none"
  /\ retryCount = 0
  /\ fetchCount = 0
  /\ delays = <<>>
  /\ outcomes = <<>>
  /\ apiResult = "none"
  /\ apiError = "none"

\* requestOffer / respondToOffer / confirmPlayout / getCacheableAssets call
\* makeRequest(url, options):
\* retryCount = 0, the abort timer is armed and fetch() is issued.
ApiCall(op) ==
  /\ apiPc = "idle"
  /\ apiOp' = op
  /\ apiPc' = "fetch"
  /\ sentHeaders' = RequestHeaders(OptionsOf(op))
  /\ retryCount' = 0
  /\ fetchCount' = 1
  /\ delays' = <<>>
  /\ outcomes' = <<>>
  /\ apiResult' = "none"
  /\ apiError' = "none"
  /\ UNCHANGED <<config, maxRetries, retryDelay>>
  /\ UNCHANGED otherVars

ApiFinish(result, err) ==
  /\ apiPc' = "done"
  /\ apiResult' = result
  /\ apiError' = err
  /\ UNCHANGED <<retryCount, fetchCount, delays>>

ApiBackoff ==
  /\ apiPc' = "backoff"
  /\ delays' = Append(delays, BackoffDelay(retryCount))
  /\ UNCHANGED <<retryCount, fetchCount, apiResult, apiError>>

\* a catch block that does not tell a timeout from other errors
AbortNotRecognised(name) == FALSE

\* line 125: err.name === 'AbortError'
IsAbortError(name) == name = "AbortError"

\* the catch block (lines 122-140)
CatchError(name, msgHasFetch, err) ==
  IF IsAbortError(name)
  THEN ApiFinish("raised", "Request timeout")
  ELSE IF RetryNetwork(retryCount, msgHasFetch)
       THEN ApiBackoff
       ELSE ApiFinish("raised", err)

\* lines 75-120: a response that is not ok
HandleErrorResponse(status, json) ==
  IF ReadErrorBody(json) = "TypeError"
  THEN CatchError("TypeError", FALSE, "body stream already read")
  ELSE IF status = 404
       THEN ApiFinish("noOffersAvailable", "none")
       ELSE IF Retry5xx(status, retryCount)
            THEN ApiBackoff
            ELSE IF ClientError(status)
                 THEN ApiFinish("clientError", "none")
                 ELSE CatchError("Error", FALSE, "API request failed")

\* fetch() resolves with a response (lines 59-120); json: the body is JSON
FetchResponds(status, json) ==
  /\ apiPc = "fetch"
  /\ outcomes' = Append(outcomes, [kind |-> "http", status |-> status, json |-> json])
  /\ IF ResponseOk(status)
     THEN ApiFinish("value", "none")
     ELSE HandleErrorResponse(status, json)
  /\ UNCHANGED <<config, maxRetries, retryDelay, apiOp, sentHeaders>>
  /\ UNCHANGED otherVars

\* the abort timer (lines 43-44) fires first: controller.abort() makes fetch()
\* reject with an AbortError
FetchTimeout ==
  /\ apiPc = "fetch"
  /\ outcomes' = Append(outcomes, [kind |-> "timeout", status |-> 0, json |-> FALSE])
  /\ CatchError("AbortError", FALSE, "The user aborted a request")
  /\ UNCHANGED <<config, maxRetries, retryDelay, apiOp, sentHeaders>>
  /\ UNCHANGED otherVars

\* fetch() rejects with a transport error; msgHasFetch: its message contains
\* 'fetch' (Chromium: "Failed to fetch")
FetchFails(msgHasFetch) ==
  /\ apiPc = "fetch"
  /\ outcomes' = Append(outcomes, [kind |-> "network", status |-> 0, json |-> msgHasFetch])
  /\ CatchError("TypeError", msgHasFetch, "network")
  /\ UNCHANGED <<config, maxRetries, retryDelay, apiOp, sentHeaders>>
  /\ UNCHANGED otherVars

\* the backoff timer fires: return this.makeRequest(url, options, retryCount + 1)
BackoffElapsed ==
  /\ apiPc = "backoff"
  /\ apiPc' = "fetch"
  /\ retryCount' = retryCount + 1
  /\ fetchCount' = fetchCount + 1
  /\ sentHeaders' = RequestHeaders(OptionsOf(apiOp))
  /\ UNCHANGED <<config, maxRetries, retryDelay, apiOp, delays, outcomes, apiResult, apiError>>
  /\ UNCHANGED otherVars

\* the operation's caller takes the result (or the rethrown error)
ApiReturn ==
  /\ apiPc = "done"
  /\ apiPc' = "idle"
  /\ UNCHANGED <<config, maxRetries, retryDelay, apiOp, retryCount, fetchCount, delays,
                 outcomes, apiResult, apiError, sentHeaders>>
  /\ UNCHANGED otherVars

(***************************************************************************)
(* BroadSignPlay (broadsign-adapter.js)                                    *)
(***************************************************************************)
HostInit ==
  /\ playCalled = FALSE
  /\ handlerSet = FALSE
  /\ readyCalls = 0
  /\ readyEvents = 0
  /\ playCalls = 0

\* a trigger without its duplicate-call guard
GuardAbsent == FALSE

\* the duplicate-call guard: if (window._adlocaiteBroadSignPlayCalled) return
AlreadyCalled == playCalled

\* function BroadSignPlay()
BroadSignPlay ==
  /\ playCalls < MaxPlayCalls
  /\ playCalls' = playCalls + 1
  /\ IF AlreadyCalled
     THEN UNCHANGED <<playCalled, readyCalls, readyEvents>>
     ELSE /\ playCalled' = TRUE
          /\ IF handlerSet
             THEN readyCalls' = readyCalls + 1 /\ UNCHANGED readyEvents
             ELSE readyEvents' = readyEvents + 1 /\ UNCHANGED readyCalls
  /\ UNCHANGED handlerSet
  /\ UNCHANGED <<apiVars, playerVars, identityVars, vastVars, cycle, sideVars>>

\* the application assigns window.onBroadSignReady
RegisterHandler ==
  /\ ~handlerSet
  /\ handlerSet' = TRUE
  /\ UNCHANGED <<playCalled, readyCalls, readyEvents, playCalls>>
  /\ UNCHANGED <<apiVars, playerVars, identityVars, vastVars, cycle, sideVars>>

(***************************************************************************)
(* AdlocaitePlayer (player.js)                                             *)
(*                                                                         *)
(* player is the object: its fields under their own names, plus            *)
(*   plays      the playPreloaded calls made so far, each with             *)
(*              pc: none, impression (awaiting the impression pixels),     *)
(*                  attached (video in the container, play() pending),     *)
(*                  playing, playRejected (play() rejected, listeners      *)
(*                  still on the element), image, complete (awaiting the   *)
(*                  complete pixels), confirm (awaiting confirmPlayout),   *)
(*                  resolved, rejected, detached (the element was removed  *)
(*                  under the call: its promise never settles), failed     *)
(*              wait: tracking pixels the call still awaits                *)
(*              gaveUp: one of its pixels was resolved by its timer        *)
(*              abandoned: cleanup() ran from outside while it was live    *)
(*              confirm: how apiClient.confirmPlayout ended for it         *)
(*              vd: the creative.duration of the vastData it was given     *)
(*   readyState what the pre-loaded video element has buffered: "nothing", *)
(*              "future" once 'canplay' fired, "enough" once               *)
(*              'canplaythrough' fired                                     *)
(*   timers     the pending setTimeout callbacks of playPreloadedImage and *)
(*              simulateImageProgress, with the time left in ms            *)
(*   beacons    per event, the rounds of tracking pixels sent since the    *)
(*              last cleanup()                                             *)
(*   confirmLog the calls of apiClient.confirmPlayout                      *)
(***************************************************************************)
NoneFired == [e \in Events |-> FALSE]
NoBeacons == [e \in Events |-> 0]
NoPlay == [pc |-> "none", wait |-> 0, gaveUp |-> FALSE, abandoned |-> FALSE,
           confirm |-> "none", vd |-> 0]

\* constructor (lines 13-38) and initialize (lines 61-74); n: the tracking
\* URLs of the parsed document
PlayerInit(n) ==
  /\ player = [trackingFired |-> NoneFired,
               isMediaPreloaded |-> FALSE,
               preloadedMediaFile |-> "none",
               preloadedVideoElement |-> 0,
               preloadedImageElement |-> 0,
               videoElement |-> 0,
               imageElement |-> 0,
               container |-> 0,
               currentDealId |-> 0,
               currentMediaFile |-> "none",
               duration |-> 0,
               completionRate |-> 0,
               isPlaying |-> FALSE,
               videoLen |-> 0,
               preloadPc |-> "none",
               readyState |-> "nothing",
               nPreloads |-> 0,
               plays |-> [p \in 1..MaxPlays |-> NoPlay],
               nPlays |-> 0,
               nStops |-> 0,
               timers |-> {},
               beacons |-> NoBeacons,
               confirmLog |-> <<>>]
  /\ nUrls = n

\* vastParser.isVideo / isImage (vast-parser.js lines 333-342)
isVideo(mediaFile) == mediaFile = "video"
isImage(mediaFile) == mediaFile = "image"

\* a guard that never finds the event fired
NeverFired(s, e) == FALSE

\* line 583: if (this.trackingFired[eventName]) return
AlreadyFired(s, e) == s.trackingFired[e]

\* fireTrackingEvent up to its await (lines 582-598): the flag is set before
\* any pixel is requested
fireTrackingEvent(s, e) ==
  IF AlreadyFired(s, e)
  THEN s
  ELSE IF nUrls = 0
       THEN [s EXCEPT !.trackingFired[e] = TRUE]
       ELSE [s EXCEPT !.trackingFired[e] = TRUE, !.beacons[e] = @ + 1]

\* does "await this.fireTrackingEvent(e)" wait for pixels (line 601)?
PixelsPending(s, e) == ~AlreadyFired(s, e) /\ nUrls > 0

\* what cleanup() does to a playPreloaded call: the listeners of a video go
\* with its element, the timers of an image stay
Detach(r) ==
  IF r.pc \in {"attached", "playing"}
  THEN [r EXCEPT !.pc = "detached", !.abandoned = TRUE]
  ELSE IF r.pc = "playRejected"
       THEN [r EXCEPT !.pc = "rejected"]
       ELSE IF r.pc \in {"impression", "image", "complete", "confirm"}
            THEN [r EXCEPT !.abandoned = TRUE]
            ELSE r

\* a cleanup() that only marks the player as not playing
cleanupOnlyStops(s) == [s EXCEPT !.isPlaying = FALSE]

\* cleanup() (lines 678-727). No timer is cleared; duration, completionRate,
\* currentDealId and currentMediaFile keep their values.
cleanup(s) ==
  [s EXCEPT !.isPlaying = FALSE,
            !.videoElement = 0,
            !.preloadedVideoElement = 0,
            !.imageElement = 0,
            !.preloadedImageElement = 0,
            !.container = IF @ \in {s.videoElement, s.preloadedVideoElement,
                                    s.imageElement, s.preloadedImageElement}
                          THEN 0 ELSE @,
            !.preloadedMediaFile = "none",
            !.isMediaPreloaded = FALSE,
            !.trackingFired = NoneFired,
            !.beacons = NoBeacons,
            !.preloadPc = IF @ = "loading" THEN "hung" ELSE @,
            !.readyState = "nothing",
            !.plays = [q \in 1..MaxPlays |-> Detach(@[q])]]

\* the promise of call p settles
Settle(s, p, how) == [s EXCEPT !.plays[p].pc = how, !.plays[p].wait = 0]

\* line 325: (this.duration || 15) * 1000
DisplayDuration(s) == (IF s.duration = 0 THEN DefaultImageSeconds ELSE s.duration) * 1000

Quartiles == {"firstQuartile", "midpoint", "thirdQuartile"}
Percent(ev) ==
  CASE ev = "firstQuartile" -> 25
    [] ev = "midpoint" -> 50
    [] ev = "thirdQuartile" -> 75
    [] OTHER -> 100

\* simulateImageProgress (lines 566-577) and the setTimeout of lines 332-338
ImageTimers(s, p) ==
  {[p |-> p, ev |-> ev, rem |-> (DisplayDuration(s) * Percent(ev)) \div 100] :
     ev \in Quartiles \cup {"done"}}

\* a playPreloadedVideo that fires 'start' as soon as the video is attached
playVideoStartsOnAttach(s, p) ==
  IF s.preloadedVideoElement = 0
  THEN Settle(s, p, "rejected")
  ELSE fireTrackingEvent([s EXCEPT !.videoElement = s.preloadedVideoElement,
                                   !.container = s.preloadedVideoElement,
                                   !.plays[p].pc = "attached",
                                   !.plays[p].wait = 0], "start")

\* playPreloadedVideo up to play() (lines 245-292)
playPreloadedVideo(s, p) ==
  IF s.preloadedVideoElement = 0
  THEN Settle(s, p, "rejected")
  ELSE [s EXCEPT !.videoElement = s.preloadedVideoElement,
                 !.container = s.preloadedVideoElement,
                 !.plays[p].pc = "attached",
                 !.plays[p].wait = 0]

\* playPreloadedImage (lines 302-340)
playPreloadedImage(s, p) ==
  IF s.preloadedImageElement = 0
  THEN Settle(s, p, "rejected")
  ELSE LET t == [s EXCEPT !.imageElement = s.preloadedImageElement,
                          !.container = s.preloadedImageElement,
                          !.isPlaying = TRUE,
                          !.plays[p].pc = "image",
                          !.plays[p].wait = 0]
       IN  [fireTrackingEvent(t, "start") EXCEPT !.timers = @ \cup ImageTimers(t, p)]

\* playPreloaded after the impression (lines 234-239): the media type is read
\* now, from this.preloadedMediaFile
StartMedia(s, p) ==
  IF isVideo(s.preloadedMediaFile) THEN playPreloadedVideo(s, p)
  ELSE IF isImage(s.preloadedMediaFile) THEN playPreloadedImage(s, p)
  ELSE Settle(s, p, "resolved")

\* a confirmPlayout whose catch lets the error of the client through
ConfirmRethrows(r) == r = "raised"

\* lines 645-658: the try/catch around apiClient.confirmPlayout logs the error
\* and does not rethrow it
ConfirmThrows(r) == FALSE

\* confirmPlayout (lines 637-652) up to its await, then (no deal) the
\* cleanup() and resolve() that follow it in the caller
confirmPlayout(s, p) ==
  IF s.currentDealId = 0
  THEN Settle(cleanup(s), p, "resolved")
  ELSE [s EXCEPT !.confirmLog = Append(@, [deal |-> s.currentDealId,
                                           rate |-> s.completionRate,
                                           play |-> p]),
                 !.plays[p].pc = "confirm",
                 !.plays[p].wait = 0]

\* the end of the media (lines 272-279 and 332-338): completionRate = 100,
\* await fireTrackingEvent('complete'), then confirmPlayout
MediaEnded(s, p) ==
  LET t == [s EXCEPT !.completionRate = 100]
  IN  IF PixelsPending(t, "complete")
      THEN [fireTrackingEvent(t, "complete") EXCEPT !.plays[p].pc = "complete",
                                                    !.plays[p].wait = nUrls]
      ELSE confirmPlayout(fireTrackingEvent(t, "complete"), p)

\* 100 * currentTime / duration >= pct, currentTime in tenths of a second
ProgressAtLeast(pos, dur, pct) == pos * 10 >= pct * dur

\* handleVideoProgress (lines 543-561)
handleVideoProgress(s, pos) ==
  IF s.videoElement = 0 \/ s.duration <= 0
  THEN s
  ELSE LET t == [s EXCEPT !.completionRate = (pos * 10) \div s.duration]
       IN  IF ProgressAtLeast(pos, s.duration, 25) /\ ~s.trackingFired["firstQuartile"]
           THEN fireTrackingEvent(t, "firstQuartile")
           ELSE IF ProgressAtLeast(pos, s.duration, 50) /\ ~s.trackingFired["midpoint"]
                THEN fireTrackingEvent(t, "midpoint")
                ELSE IF ProgressAtLeast(pos, s.duration, 75) /\ ~s.trackingFired["thirdQuartile"]
                     THEN fireTrackingEvent(t, "thirdQuartile")
                     ELSE t

\* the caller has no playPreloaded call under way: every call has settled or
\* was stopped
Live(r) ==
  /\ r.pc \in {"impression", "attached", "playing", "image", "complete", "confirm"}
  /\ ~r.abandoned
NoLivePlay == \A p \in 1..MaxPlays : ~Live(player.plays[p])

\* preloadMedia(mediaFile) (lines 80-90) with preloadVideo / preloadImage up to
\* the start of the load
PreloadMedia(type) ==
  /\ player.nPreloads < MaxPreloads
  /\ player.preloadPc # "loading"
  /\ NoLivePlay
  /\ LET id == player.nPreloads + 1
         s == [player EXCEPT !.nPreloads = id, !.preloadedMediaFile = type]
     IN  player' =
           IF isVideo(type)
           THEN [s EXCEPT !.preloadedVideoElement = id, !.preloadPc = "loading",
                          !.readyState = "nothing"]
           ELSE IF isImage(type)
                THEN [s EXCEPT !.preloadedImageElement = id, !.preloadPc = "loading"]
                ELSE [s EXCEPT !.preloadPc = "rejected"]
  /\ UNCHANGED <<nUrls, apiVars, hostVars, identityVars, vastVars, cycle, sideVars>>

\* a 'canplay' that ends the pre-load as 'canplaythrough' does
CanPlayResolves(s) == [s EXCEPT !.isMediaPreloaded = TRUE, !.preloadPc = "resolved"]

\* lines 157-158: preloadVideo listens to 'canplaythrough' and 'error' only,
\* a 'canplay' runs no code of the player
NoCanPlayListener(s) == s

\* the video element being pre-loaded fires 'canplay': it has data to start
\* playing, not yet enough to play through
VideoCanPlay ==
  /\ player.preloadPc = "loading"
  /\ isVideo(player.preloadedMediaFile)
  /\ player.readyState = "nothing"
  /\ player' = NoCanPlayListener([player EXCEPT !.readyState = "future"])
  /\ UNCHANGED <<nUrls, apiVars, hostVars, identityVars, vastVars, cycle, sideVars>>

\* 'canplaythrough' (lines 140-145) or 'load' (lines 196-200), then lines 92-93
PreloadReady(len) ==
  /\ player.preloadPc = "loading"
  /\ player' = [player EXCEPT
                  !.readyState = IF isVideo(player.preloadedMediaFile) THEN "enough" ELSE @,
                  !.duration = IF isVideo(player.preloadedMediaFile) THEN len ELSE @,
                  !.videoLen = IF isVideo(player.preloadedMediaFile) THEN len ELSE @,
                  !.isMediaPreloaded = TRUE,
                  !.preloadPc = "resolved"]
  /\ UNCHANGED <<nUrls, apiVars, hostVars, identityVars, vastVars, cycle, sideVars>>

\* 'error' while pre-loading (lines 147-155, 202-206)
PreloadError ==
  /\ player.preloadPc = "loading"
  /\ player' = [player EXCEPT !.preloadPc = "rejected"]
  /\ UNCHANGED <<nUrls, apiVars, hostVars, identityVars, vastVars, cycle, sideVars>>

\* the assetTimeout timer (lines 125-129, 183-187)
PreloadTimeout ==
  /\ player.preloadPc = "loading"
  /\ player' = [player EXCEPT !.preloadPc = "rejected"]
  /\ UNCHANGED <<nUrls, apiVars, hostVars, identityVars, vastVars, cycle, sideVars>>

\* playPreloaded(vastData, dealId) (lines 220-232); vd: vastData.creative.duration
PlayPreloaded(vd, hasDeal) ==
  /\ player.nPlays < MaxPlays
  /\ player.preloadPc # "loading"
  /\ NoLivePlay
  /\ LET p == player.nPlays + 1
         s == [player EXCEPT !.nPlays = p]
     IN  player' =
           IF ~s.isMediaPreloaded \/ s.preloadedMediaFile = "none"
           THEN Settle(s, p, "rejected")
           ELSE LET t == [s EXCEPT !.plays[p].vd = vd,
                                   !.currentDealId = IF hasDeal THEN p ELSE 0,
                                   !.currentMediaFile = s.preloadedMediaFile,
                                   !.duration = IF vd # 0 THEN vd ELSE @]
                IN  IF PixelsPending(t, "impression")
                    THEN [fireTrackingEvent(t, "impression") EXCEPT
                            !.plays[p].pc = "impression", !.plays[p].wait = nUrls]
                    ELSE StartMedia(fireTrackingEvent(t, "impression"), p)
  /\ UNCHANGED <<nUrls, apiVars, hostVars, identityVars, vastVars, cycle, sideVars>>

\* one awaited tracking pixel of call p resolves; with the last one Promise.all
\* resolves and the call goes on (line 234, or confirmPlayout)
PixelResolved(p) ==
  LET r == player.plays[p]
      s == [player EXCEPT !.plays[p].wait = @ - 1]
  IN  IF r.wait > 1 THEN s
      ELSE IF r.pc = "impression" THEN StartMedia(s, p)
      ELSE confirmPlayout(s, p)

\* a fireTrackingPixel without its timer
PixelTimerMissing == FALSE

\* lines 625-628: every fireTrackingPixel arms a 5000 ms timer that resolves it
PixelTimerArmed == TRUE

\* img.onload (lines 615-618)
PixelLoad(p) ==
  /\ player.plays[p].wait > 0
  /\ player' = PixelResolved(p)
  /\ UNCHANGED <<nUrls, apiVars, hostVars, identityVars, vastVars, cycle, sideVars>>

\* img.onerror (lines 619-622)
PixelError(p) ==
  /\ player.plays[p].wait > 0
  /\ player' = PixelResolved(p)
  /\ UNCHANGED <<nUrls, apiVars, hostVars, identityVars, vastVars, cycle, sideVars>>

\* the 5000 ms timer of the pixel (lines 625-628)
PixelTimeout(p) ==
  /\ player.plays[p].wait > 0
  /\ PixelTimerArmed
  /\ player' = [PixelResolved(p) EXCEPT !.plays[p].gaveUp = TRUE]
  /\ UNCHANGED <<nUrls, apiVars, hostVars, identityVars, vastVars, cycle, sideVars>>

\* 'play' on the video (lines 260-266)
VideoPlay(p) ==
  /\ player.plays[p].pc = "attached"
  /\ player' = [fireTrackingEvent([player EXCEPT !.isPlaying = TRUE], "start")
                  EXCEPT !.plays[p].pc = "playing"]
  /\ UNCHANGED <<nUrls, apiVars, hostVars, identityVars, vastVars, cycle, sideVars>>

\* play() rejects (lines 292-295): reject(err), nothing is cleaned up
VideoPlayRejected(p) ==
  /\ player.plays[p].pc = "attached"
  /\ player' = [player EXCEPT !.plays[p].pc = "playRejected"]
  /\ UNCHANGED <<nUrls, apiVars, hostVars, identityVars, vastVars, cycle, sideVars>>

\* 'timeupdate' (lines 268-270) with currentTime = pos
VideoTimeUpdate(p, pos) ==
  /\ player.plays[p].pc = "playing"
  /\ player.videoLen = 0 \/ pos <= 10 * player.videoLen
  /\ player' = handleVideoProgress(player, pos)
  /\ UNCHANGED <<nUrls, apiVars, hostVars, identityVars, vastVars, cycle, sideVars>>

\* 'ended' (lines 272-279)
VideoEnded(p) ==
  /\ player.plays[p].pc = "playing"
  /\ player' = MediaEnded(player, p)
  /\ UNCHANGED <<nUrls, apiVars, hostVars, identityVars, vastVars, cycle, sideVars>>

\* 'error' on the video (lines 281-289)
VideoError(p) ==
  /\ player.plays[p].pc \in {"attached", "playing", "playRejected"}
  /\ player' = Settle(cleanup(player), p, "rejected")
  /\ UNCHANGED <<nUrls, apiVars, hostVars, identityVars, vastVars, cycle, sideVars>>

\* timers are run in the order they come due, and for equal due times in the
\* order of their creation
Rank(t) == 4 * t.p + (Percent(t.ev) \div 25)
Due(t) ==
  /\ t \in player.timers
  /\ t.rem = 0
  /\ \A u \in player.timers : u.rem = 0 => Rank(t) <= Rank(u)
Timer(p, ev) == [p |-> p, ev |-> ev, rem |-> 0]

\* a timer of simulateImageProgress fires for call p (lines 568-571)
QuartileTimer(p, ev) ==
  /\ Due(Timer(p, ev))
  /\ player' = fireTrackingEvent([player EXCEPT !.timers = @ \ {Timer(p, ev)},
                                                !.completionRate = Percent(ev)], ev)
  /\ UNCHANGED <<nUrls, apiVars, hostVars, identityVars, vastVars, cycle, sideVars>>

\* the display timer of playPreloadedImage fires for call p (lines 332-338)
DisplayTimer(p) ==
  /\ Due(Timer(p, "done"))
  /\ player' = MediaEnded([player EXCEPT !.timers = @ \ {Timer(p, "done")}], p)
  /\ UNCHANGED <<nUrls, apiVars, hostVars, identityVars, vastVars, cycle, sideVars>>

\* time passes until the next timer is due
Advance ==
  /\ player.timers # {}
  /\ \A t \in player.timers : t.rem > 0
  /\ LET d == CHOOSE d \in {t.rem : t \in player.timers} :
                 \A t \in player.timers : d <= t.rem
     IN  player' = [player EXCEPT !.timers = {[t EXCEPT !.rem = @ - d] : t \in @}]
  /\ UNCHANGED <<nUrls, apiVars, hostVars, identityVars, vastVars, cycle, sideVars>>

\* apiClient.confirmPlayout settles for call p with r (lines 649-658), then the
\* cleanup() and resolve() of the caller
ConfirmSettles(p, r) ==
  /\ player.plays[p].pc = "confirm"
  /\ player' = IF ConfirmThrows(r)
               THEN [player EXCEPT !.plays[p].pc = "failed", !.plays[p].confirm = r]
               ELSE [Settle(cleanup(player), p, "resolved") EXCEPT !.plays[p].confirm = r]
  /\ UNCHANGED <<nUrls, apiVars, hostVars, identityVars, vastVars, cycle, sideVars>>

\* stop() (lines 732-735), called while a playPreloaded call shows its media
Stop ==
  /\ player.nStops < MaxStops
  /\ \E p \in 1..MaxPlays :
        /\ player.plays[p].pc \in {"attached", "playing", "playRejected", "image",
                                   "complete", "confirm"}
        /\ ~player.plays[p].abandoned
  /\ player' = [cleanup(player) EXCEPT !.nStops = @ + 1]
  /\ UNCHANGED <<nUrls, apiVars, hostVars, identityVars, vastVars, cycle, sideVars>>

(***************************************************************************)
(* BroadsignAdapter.getScreenId (unnamed/part_004, and the earlier version *)
(* of package/js/broadsign-adapter.js)                                     *)
(*                                                                         *)
(* A JavaScript value is a record: k is its kind (undefined, null, string) *)
(* and v the characters of a string.  Two more kinds stand for what is not *)
(* a value: "unavailable" (reading localStorage raises) and "raised" (the  *)
(* call ended by an exception).                                            *)
(***************************************************************************)
Undefined == [k |-> "undefined", v |-> ""]
Null == [k |-> "null", v |-> ""]
Str(x) == [k |-> "string", v |-> x]
Unavailable == [k |-> "unavailable", v |-> ""]
Raised == [k |-> "raised", v |-> ""]

\* String(x)
String(x) ==
  CASE x.k = "undefined" -> Str("undefined")
    [] x.k = "null" -> Str("null")
    [] OTHER -> Str(x.v)

\* x.trim(), over the strings of the model
Trim(x) == IF x.v \in {" ", "  "} THEN Str("") ELSE x

\* if (x), for undefined, null and strings
Truthy(x) == x.k = "string" /\ x.v # ""

\* values the host may hold in BroadSignObject.frame_id, display_unit_id and
\* player_id
FrameIds == {Undefined, Null, Str(""), Str(" "), Str("F")}
DisplayUnitIds == {Undefined, Str(""), Str("D")}
PlayerIds == {Undefined, Str("P")}
\* BroadSignObject.getScreenId: Undefined when the host has no such function,
\* else what it returns
HostScreenIds == {Undefined, Str(""), Str("G")}
\* the parent window: the window itself, a cross-origin parent, a parent whose
\* BroadSignObject has no frame_id, a parent whose BroadSignObject has one
ParentWindows == {"self", "denied", "bare", "framed"}
\* the screen_id parameter of the URL: Undefined when the URL has none
ScreenIdParams == {Undefined, Str(""), Str("U")}
\* localStorage.getItem('adlocaite_screen_id')
StoredIds == {Null, Str(""), Str(" "), Str("S"), Unavailable}
\* the fields getScreenId reads from BroadSignObject
HostFields == {"frame_id", "display_unit_id", "player_id"}
\* the value the host gives a field when it populates it
HostId(f) ==
  CASE f = "frame_id" -> Str("F")
    [] f = "display_unit_id" -> Str("D")
    [] OTHER -> Str("P")
\* Date.now() at a call
Clock == {1, 2}

\* BroadSignObject when it is not a plain object: "undefined", "null", or
\* "throwing" (an object whose property reads raise)
NoObject(st) ==
  [state |-> st, frame_id |-> Undefined, display_unit_id |-> Undefined,
   player_id |-> Undefined, getScreenId |-> Undefined]

BroadSignObjects ==
  {NoObject(st) : st \in {"undefined", "null", "throwing"}} \cup
  [state : {"object"}, frame_id : FrameIds, display_unit_id : DisplayUnitIds,
   player_id : PlayerIds, getScreenId : HostScreenIds]

\* parent.BroadSignObject of a parent that has one
ParentObject(w) ==
  [state |-> "object",
   frame_id |-> IF w = "framed" THEN Str("PF") ELSE Undefined,
   display_unit_id |-> Undefined, player_id |-> Undefined, getScreenId |-> Undefined]

\* typeof BroadSignObject !== 'undefined' && BroadSignObject !== null
LocalObject(b) == b.state \in {"object", "throwing"}

\* isBroadsignEnvironment() raises: lines 65-67 and 73-75 read the properties
\* of BroadSignObject outside any try
EnvironmentRaises(b) == b.state = "throwing"

\* isBroadsignEnvironment() (lines 60-100) when it returns; a parent that
\* cannot be read is caught (lines 93-96)
isBroadsignEnvironment(b, w) ==
  \/ /\ b.state = "object"
     /\ \/ b.frame_id # Undefined
        \/ b.display_unit_id # Undefined
        \/ b.player_id # Undefined
  \/ w = "framed"

\* getBroadSignObject() (lines 105-124)
getBroadSignObject(b, w) ==
  IF LocalObject(b) THEN b
  ELSE IF w \in {"bare", "framed"} THEN ParentObject(w)
  ELSE NoObject("null")

\* x != null && String(x).trim() !== '' (lines 205, 217, 229)
NonEmpty(x) == x.k \notin {"undefined", "null"} /\ Trim(String(x)) # Str("")

\* the cascade of lines 204-238 over the object: Undefined when it falls
\* through
HostScreenId(o) ==
  IF NonEmpty(o.frame_id) THEN String(o.frame_id)
  ELSE IF NonEmpty(o.display_unit_id) THEN String(o.display_unit_id)
  ELSE IF NonEmpty(o.player_id) THEN String(o.player_id)
  ELSE Undefined

\* getScreenId() of part_004 (lines 184-289): b BroadSignObject, w the parent
\* window, u the URL parameter, l the stored item
getScreenId(b, w, u, l) ==
  IF EnvironmentRaises(b)
  THEN Raised
  ELSE LET o == getBroadSignObject(b, w)
           h == IF isBroadsignEnvironment(b, w) /\ o.state = "object"
                THEN HostScreenId(o)
                ELSE Undefined
       IN  IF h # Undefined THEN h
           ELSE IF u # Undefined THEN u
           ELSE IF l = Unavailable THEN Raised
           ELSE IF Truthy(l) THEN l
           ELSE Null

\* isBroadsignEnvironment() of package/js (lines 43-47), when it returns
isBroadsignEnvironmentPackaged(b) == b.state = "object" /\ b.getScreenId # Undefined

\* `test-screen-${Date.now()}` (package/js line 95)
TestScreen(now) == Str(IF now = 1 THEN "test-screen-1" ELSE "test-screen-2")

\* the call returns val and leaves this.screenId = id
Returned(val, id) == [val |-> val, screenId |-> id]

\* getScreenId() of package/js (lines 54-98): a the adapter, now Date.now()
getScreenIdPackaged(a, b, u, l, now) ==
  IF Truthy(a.screenId)
  THEN Returned(a.screenId, a.screenId)
  ELSE IF EnvironmentRaises(b)
  THEN Returned(Raised, a.screenId)
  ELSE LET g == IF isBroadsignEnvironmentPackaged(b) THEN b.getScreenId ELSE a.screenId
       IN  IF isBroadsignEnvironmentPackaged(b) /\ Truthy(g) THEN Returned(g, g)
           ELSE IF u # Undefined THEN Returned(u, u)
           ELSE IF l = Unavailable THEN Returned(Raised, g)
           ELSE IF Truthy(l) THEN Returned(l, l)
           ELSE Returned(TestScreen(now), TestScreen(now))

\* the adapters after construction (part_004 lines 12-21, package/js 12-19)
AdapterInit ==
  /\ adapter = [screenId |-> Null, displayUnitId |-> Null, playerId |-> Null,
                getScreenIdCallCount |-> 0]
  /\ packagedAdapter = [screenId |-> Null]
  /\ idLog = <<>>

\* no host object, no parameter, nothing stored: the environment of the
\* specifications that do not resolve the identity
IdentityIdle ==
  /\ BroadSignObject = NoObject("undefined")
  /\ parentWindow = "self"
  /\ screenIdParam = Undefined
  /\ localStorage = Null
  /\ AdapterInit

\* the host makes BroadSignObject available after the page has started
HostInjects ==
  /\ BroadSignObject.state \in {"undefined", "null"}
  /\ BroadSignObject' = [BroadSignObject EXCEPT !.state = "object"]
  /\ UNCHANGED <<parentWindow, screenIdParam, localStorage, adapter, packagedAdapter,
                 idLog, apiVars, hostVars, playerVars, vastVars, cycle, sideVars>>

\* the host populates a field of BroadSignObject that was empty
HostPopulates(f) ==
  /\ BroadSignObject.state = "object"
  /\ ~NonEmpty(BroadSignObject[f])
  /\ BroadSignObject' = [BroadSignObject EXCEPT ![f] = HostId(f)]
  /\ UNCHANGED <<parentWindow, screenIdParam, localStorage, adapter, packagedAdapter,
                 idLog, apiVars, hostVars, playerVars, vastVars, cycle, sideVars>>

\* an adapter that goes on returning the first identifier it has found
MemoizedResult(log, r) ==
  LET found == {i \in 1..Len(log) : log[i].ver = "part_004" /\ Truthy(log[i].val)}
  IN  IF found = {} THEN r
      ELSE log[CHOOSE i \in found : \A j \in found : i <= j].val

\* part_004 keeps no result (lines 179-180): after the counter, the call goes
\* straight to the host (lines 186-196) and returns what it resolves now
FreshResult(log, r) == r

\* a call of getScreenId() on the adapter of part_004
GetScreenId ==
  /\ Len(idLog) < MaxIdCalls
  /\ adapter' = [adapter EXCEPT !.getScreenIdCallCount = @ + 1]
  /\ idLog' = Append(idLog, [ver |-> "part_004",
                             val |-> FreshResult(idLog,
                                       getScreenId(BroadSignObject, parentWindow,
                                                   screenIdParam, localStorage))])
  /\ UNCHANGED <<BroadSignObject, parentWindow, screenIdParam, localStorage,
                 packagedAdapter, apiVars, hostVars, playerVars, vastVars, cycle, sideVars>>

\* a call of getScreenId() on the adapter of package/js
GetScreenIdPackaged(now) ==
  /\ Len(idLog) < MaxIdCalls
  /\ LET r == getScreenIdPackaged(packagedAdapter, BroadSignObject, screenIdParam,
                                  localStorage, now)
     IN  /\ packagedAdapter' = [packagedAdapter EXCEPT !.screenId = r.screenId]
         /\ idLog' = Append(idLog, [ver |-> "package", val |-> r.val])
  /\ UNCHANGED <<BroadSignObject, parentWindow, screenIdParam, localStorage,
                 adapter, apiVars, hostVars, playerVars, vastVars, cycle, sideVars>>

(***************************************************************************)
(* VASTParser (package/js/vast-parser.js)                                  *)
(*                                                                         *)
(* xmlDoc holds what the queries of the parser can see of a document: is   *)
(* it well-formed, has it a VAST and an Ad element, which creative, its    *)
(* MediaFile elements in document order (attributes as written, "" when    *)
(* absent), its Extensions (none, without or with the adlocaite DealId     *)
(* "E") and the text of AdParameters (none, plain text, a '{' that is not  *)
(* JSON, JSON without a deal, JSON with deal_id "A" or with dealId "B").   *)
(* An optional number is a set: {} for null, {n} for n.                    *)
(***************************************************************************)
MediaFileElements ==
  [delivery : {"progressive", "streaming", ""},
   type : {"video/mp4", "image/png"},
   bitrate : {"", "0", "800", "1200", "5000"}]

MediaLists == UNION {[1..n -> MediaFileElements] : n \in 0..MaxMediaFiles}

\* a complete document around the MediaFile elements ms
Document(ms) ==
  [wellFormed |-> TRUE, vast |-> TRUE, ad |-> TRUE, creative |-> "Linear",
   mediaFiles |-> ms, extensions |-> "deal", adParameters |-> "",
   tracking |-> <<>>, impressions |-> 0]

\* documents with parts missing, and the text that is no XML
XmlDocs ==
  {Document(ms) : ms \in MediaLists} \cup
  {[Document(<<>>) EXCEPT !.wellFormed = FALSE]} \cup
  [wellFormed : {TRUE}, vast : BOOLEAN, ad : BOOLEAN,
   creative : {"Linear", "NonLinear", ""},
   mediaFiles : {ms \in MediaLists : Len(ms) = 0},
   extensions : {"", "other", "deal"},
   adParameters : {"", "text", "{bad", "{}", "deal_id", "dealId"},
   tracking : {<<>>}, impressions : {0}]

\* the event attribute of a Tracking element
TrackingNames == {"impression", "start", "complete"}

\* the Tracking elements of a document, each by its event attribute, in
\* document order
TrackingLists == UNION {[1..n -> TrackingNames] : n \in 0..MaxTracking}

\* complete documents with ts as Tracking elements and n Impression elements
TrackedDocs ==
  {[Document(<<>>) EXCEPT !.tracking = ts, !.impressions = n] :
     ts \in TrackingLists, n \in 0..MaxImpressions}

\* the text of the i-th Tracking ("T") or Impression ("I") element: each
\* element carries a URL of its own
Url(el, i) == [el |-> el, n |-> i]

\* the mime-type lists getBestMediaFile is called with; the first is its
\* default (line 310)
PreferenceLists ==
  {<<"video/mp4", "image/jpeg", "image/png">>, <<"image/png", "video/mp4">>,
   <<"video/webm">>, <<>>}

\* parseInt(t) || null (lines 151-154): NaN and 0 give null
parseIntOrNull(t) ==
  CASE t = "800" -> {800}
    [] t = "1200" -> {1200}
    [] t = "5000" -> {5000}
    [] OTHER -> {}

\* (n || 0) (line 168)
OrZero(n) == IF n = {} THEN 0 ELSE CHOOSE x \in n : TRUE

\* a comparator that looks at the bitrate only
compareBitrate(a, b) == OrZero(b.bitrate) - OrZero(a.bitrate)

\* the comparator of lines 162-169
compare(a, b) ==
  IF a.delivery = "progressive" /\ b.delivery # "progressive" THEN -1
  ELSE IF b.delivery = "progressive" /\ a.delivery # "progressive" THEN 1
  ELSE OrZero(b.bitrate) - OrZero(a.bitrate)

\* Array.prototype.sort with that comparator: a stable sort (ES2019), here by
\* insertion of each element behind those that do not come after it
RECURSIVE sort(_)
sort(fs) ==
  IF fs = <<>> THEN <<>>
  ELSE LET init == sort(SubSeq(fs, 1, Len(fs) - 1))
           x == fs[Len(fs)]
           after == {k \in 1..Len(init) : compare(x, init[k]) < 0}
           at == IF after = {} THEN Len(init) + 1
                 ELSE CHOOSE k \in after : \A j \in after : k <= j
       IN  SubSeq(init, 1, at - 1) \o <<x>> \o SubSeq(init, at, Len(init))

\* parseMediaFiles (lines 142-173); url stands for the element's text, here its
\* position in the document
parseMediaFiles(doc) ==
  sort([i \in 1..Len(doc.mediaFiles) |->
          [url |-> i,
           delivery |-> doc.mediaFiles[i].delivery,
           type |-> doc.mediaFiles[i].type,
           bitrate |-> parseIntOrNull(doc.mediaFiles[i].bitrate)]])

\* parseCustomExtensions (lines 232-304), its dealId; without an Extensions
\* element it returns at once (lines 242-245)
parseCustomExtensions(doc) ==
  IF doc.extensions = ""
  THEN [dealId |-> Null]
  ELSE LET e == IF doc.extensions = "deal" THEN Str("E") ELSE Null
           j == CASE doc.adParameters = "deal_id" -> Str("A")
                  [] doc.adParameters = "dealId" -> Str("B")
                  [] OTHER -> Undefined
       IN  [dealId |-> IF doc.adParameters \in {"{}", "deal_id", "dealId"} /\ ~Truthy(e)
                       THEN j ELSE e]

\* lines 180-190: the URLs of the Tracking elements, grouped by event in
\* document order
groupTracking(doc) ==
  [e \in TrackingNames |->
     LET at == SelectSeq([i \in 1..Len(doc.tracking) |-> i],
                         LAMBDA i : doc.tracking[i] = e)
     IN  [k \in 1..Len(at) |-> Url("T", at[k])]]

\* the URLs of the Impression elements, in document order
impressionUrls(doc) == [j \in 1..doc.impressions |-> Url("I", j)]

\* parseTrackingEvents (lines 178-203): with an Impression element present
\* events.impression is set anew (line 195) and filled from the Impression
\* elements
parseTrackingEvents(doc) ==
  IF doc.impressions > 0
  THEN [groupTracking(doc) EXCEPT !["impression"] = impressionUrls(doc)]
  ELSE groupTracking(doc)

NoEvents == [e \in TrackingNames |-> <<>>]

\* this.parsedData before parse() (line 17)
NoData ==
  [status |-> "none", version |-> "", ad |-> FALSE, creative |-> "",
   mediaFiles |-> <<>>, trackingEvents |-> NoEvents,
   customExtensions |-> [dealId |-> Null]]

\* parse (lines 44-76) with getVASTVersion, parseAd and parseCreative: it
\* raises on a parsererror only, and then leaves this.parsedData as it was
parse(doc) ==
  IF ~doc.wellFormed
  THEN [NoData EXCEPT !.status = "raised"]
  ELSE [status |-> "parsed",
        version |-> IF doc.vast THEN "4.0" ELSE "unknown",
        ad |-> doc.ad,
        creative |-> doc.creative,
        mediaFiles |-> parseMediaFiles(doc),
        trackingEvents |-> parseTrackingEvents(doc),
        customExtensions |-> parseCustomExtensions(doc)]

\* getBestMediaFile (lines 310-328): k is "file", "null" or "undefined"
getBestMediaFile(pd, prefs) ==
  IF pd.status # "parsed"
  THEN [k |-> "null", file |-> <<>>]
  ELSE LET hits(t) == {i \in 1..Len(pd.mediaFiles) : pd.mediaFiles[i].type = t}
           ts == {n \in 1..Len(prefs) : hits(prefs[n]) # {}}
           t1 == prefs[CHOOSE n \in ts : \A m \in ts : n <= m]
       IN  IF ts # {}
           THEN [k |-> "file",
                 file |-> <<pd.mediaFiles[CHOOSE i \in hits(t1) : \A j \in hits(t1) : i <= j]>>]
           ELSE IF pd.mediaFiles = <<>>
                THEN [k |-> "undefined", file |-> <<>>]
                ELSE [k |-> "file", file |-> <<pd.mediaFiles[1]>>]

\* getDealId (lines 347-349)
getDealId(pd) ==
  IF pd.status = "parsed" /\ Truthy(pd.customExtensions.dealId)
  THEN pd.customExtensions.dealId
  ELSE Null

\* no query answered yet
NoResult ==
  [op |-> "none", prefs |-> <<>>, best |-> [k |-> "null", file |-> <<>>], deal |-> Null]

\* nothing parsed, nothing asked
VastIdle ==
  /\ xmlDoc = Document(<<>>)
  /\ parsedData = NoData
  /\ vastResult = NoResult

\* parser.parse(xmlDoc); what was answered before was about the former
\* parsedData
Parse ==
  /\ parsedData.status = "none"
  /\ parsedData' = parse(xmlDoc)
  /\ vastResult' = NoResult
  /\ UNCHANGED <<xmlDoc, apiVars, hostVars, playerVars, identityVars, cycle, sideVars>>

\* parser.getBestMediaFile(prefs)
GetBestMediaFile(prefs) ==
  /\ vastResult' = [vastResult EXCEPT !.op = "getBestMediaFile", !.prefs = prefs,
                                      !.best = getBestMediaFile(parsedData, prefs)]
  /\ UNCHANGED <<xmlDoc, parsedData, apiVars, hostVars, playerVars, identityVars, cycle, sideVars>>

\* parser.getDealId()
GetDealId ==
  /\ vastResult' = [vastResult EXCEPT !.op = "getDealId", !.deal = getDealId(parsedData)]
  /\ UNCHANGED <<xmlDoc, parsedData, apiVars, hostVars, playerVars, identityVars, cycle, sideVars>>

(***************************************************************************)
(* The lifecycle orchestrator                                              *)
(*                                                                         *)
(* index.html, which holds it, is not among the sources.  It is modelled   *)
(* from sections 4.5, 5 and 6 of the specification and from what the audit *)
(* (part_009) quotes of it: DOMContentLoaded runs app.initialize() and     *)
(* then preloadContent(); window.onBroadSignReady and a listener for       *)
(* 'broadsignready' run the same code; start() awaits the pre-load;        *)
(* setPlaybackStatus writes the status the host reads from <title>.        *)
(* cycle holds                                                             *)
(*   pc       boot, offer, decode, preloading, preloaded, playing,         *)
(*            completed, stopped                                           *)
(*   status   wait, ready, skip, and reason, the reason of a skip          *)
(*   heard    the ready signals the handler has taken                      *)
(*   trigger  the display trigger was taken and start() is under way       *)
(*   starts   how often playback was started                               *)
(*   log      the steps made, each with whether it succeeded               *)
(*   lastRead what the host last read from the status channel              *)
(***************************************************************************)
NoCycle ==
  [pc |-> "boot", status |-> "wait", reason |-> "", heard |-> 0, trigger |-> FALSE,
   starts |-> 0, log |-> <<>>, lastRead |-> "none"]

CycleIdle == cycle = NoCycle

\* what the Exchange Client returns to requestOffer, the identity the adapter
\* returns, and the documents of an offer
OfferResults == {"value", "noOffersAvailable", "clientError", "raised"}
CycleIds == {Null, Str("F")}
CycleDocs == {Document(<<>>), [Document(<<>>) EXCEPT !.wellFormed = FALSE]}

\* ready signals that reach the application when only the handler counts
DeliveredCallsOnly == readyCalls

\* ready signals that reach the application: the calls of
\* window.onBroadSignReady and the 'broadsignready' events, which its listener
\* hears from the start
Delivered == readyCalls + readyEvents

\* a skip that lets the cycle go on
SkipWithoutStop(c, why) == [c EXCEPT !.status = "skip", !.reason = why]

\* set Skip(reason) and stop
Skip(c, why) == [c EXCEPT !.status = "skip", !.reason = why, !.pc = "stopped"]

\* a lifecycle timer that is never disarmed
TimeoutAlways(c) == c.pc \notin {"stopped", "completed"}

\* the maximum lifecycle duration bounds request, decoding and pre-load
TimeoutArmed(c) == c.pc \in {"offer", "decode", "preloading"}

\* step name was made and succeeded or not
Logged(c, name, ok) == [c EXCEPT !.log = Append(@, [step |-> name, ok |-> ok])]

\* resolve the identity; unavailable: Skip("no identity") and stop
ResolveIdentity(id) ==
  /\ cycle.pc = "boot"
  /\ handlerSet
  /\ cycle' = IF id = Null
              THEN Skip(Logged(cycle, "identity", FALSE), "no identity")
              ELSE [Logged(cycle, "identity", TRUE) EXCEPT !.pc = "offer"]
  /\ UNCHANGED <<apiVars, hostVars, playerVars, identityVars, vastVars, sideVars>>

\* request an offer; no offer (a 404 or another 4xx): Skip("no offer") and
\* stop; the retries exhausted: the cycle is aborted with a Skip
RequestOffer(r) ==
  /\ cycle.pc = "offer"
  /\ cycle' = IF r = "value"
              THEN [Logged(cycle, "offer", TRUE) EXCEPT !.pc = "decode"]
              ELSE IF r = "raised"
                   THEN Skip(Logged(cycle, "offer", FALSE), "server failure")
                   ELSE Skip(Logged(cycle, "offer", FALSE), "no offer")
  /\ UNCHANGED <<apiVars, hostVars, playerVars, identityVars, vastVars, sideVars>>

\* decode the descriptor; malformed: Skip("decode failed") and stop; else the
\* descriptor goes to the playback engine, which starts pre-loading at once
Decode(doc) ==
  /\ cycle.pc = "decode"
  /\ cycle' = IF parse(doc).status = "raised"
              THEN Skip(Logged(cycle, "decode", FALSE), "decode failed")
              ELSE [Logged(cycle, "decode", TRUE) EXCEPT !.pc = "preloading"]
  /\ UNCHANGED <<apiVars, hostVars, playerVars, identityVars, vastVars, sideVars>>

\* the pre-load succeeds: set Ready
PreloadSucceeds ==
  /\ cycle.pc = "preloading"
  /\ cycle' = [Logged(cycle, "preload", TRUE) EXCEPT !.status = "ready", !.pc = "preloaded"]
  /\ UNCHANGED <<apiVars, hostVars, playerVars, identityVars, vastVars, sideVars>>

\* the pre-load fails (error or asset timeout): a skip condition
PreloadFails ==
  /\ cycle.pc = "preloading"
  /\ cycle' = Skip(Logged(cycle, "preload", FALSE), "preload failed")
  /\ UNCHANGED <<apiVars, hostVars, playerVars, identityVars, vastVars, sideVars>>

\* the maximum lifecycle duration elapses: a fatal skip
LifecycleTimeout ==
  /\ TimeoutArmed(cycle)
  /\ cycle' = Skip(cycle, "timeout")
  /\ UNCHANGED <<apiVars, hostVars, playerVars, identityVars, vastVars, sideVars>>

\* the handler (or the listener) takes a ready signal of BroadSignPlay and
\* start() begins to wait for the pre-load
OnBroadSignReady ==
  /\ cycle.heard < Delivered
  /\ cycle' = [cycle EXCEPT !.heard = @ + 1, !.trigger = TRUE]
  /\ UNCHANGED <<apiVars, hostVars, playerVars, identityVars, vastVars, sideVars>>

\* a start() that does not wait for a pre-load in flight
PreloadNotAwaited(c) == c.pc \in {"preloading", "preloaded"}

\* await this.preloadPromise: the pre-load has succeeded
PreloadDone(c) == c.pc = "preloaded"

\* start() goes on once the pre-load is done: Preloaded -> Playing
StartPlayback ==
  /\ PreloadDone(cycle)
  /\ cycle.trigger
  /\ cycle' = [Logged(cycle, "play", TRUE) EXCEPT !.pc = "playing", !.starts = @ + 1]
  /\ UNCHANGED <<apiVars, hostVars, playerVars, identityVars, vastVars, sideVars>>

\* the playback engine reports Completed: the cycle ends
Complete ==
  /\ cycle.pc = "playing"
  /\ cycle' = [cycle EXCEPT !.pc = "completed"]
  /\ UNCHANGED <<apiVars, hostVars, playerVars, identityVars, vastVars, sideVars>>

\* the host reads the status channel
ReadStatus ==
  /\ cycle' = [cycle EXCEPT !.lastRead = cycle.status]
  /\ UNCHANGED <<apiVars, hostVars, playerVars, identityVars, vastVars, sideVars>>

(***************************************************************************)
(* ErrorTracking (unnamed/part_002, lines 92-247)                          *)
(*                                                                         *)
(* errorTracking holds                                                     *)
(*   enableErrorTracking  config.enableErrorTracking                       *)
(*   sentry        window.Sentry is there (vendor/sentry.min.js has run)   *)
(*   sentryLoaded, sentryLoading, errorQueue   the fields of the object    *)
(*   sent          what window.Sentry.captureException / captureMessage    *)
(*                 were called with, in order                              *)
(*   nCaptured     the captureError / captureMessage calls made            *)
(* An item is its type and the number of the call that captured it.        *)
(***************************************************************************)
Item(type, n) == [type |-> type, n |-> n]

\* captureError (lines 213-227)
captureError(s, n) ==
  IF s.sentryLoaded /\ s.sentry
  THEN [s EXCEPT !.sent = Append(@, Item("error", n))]
  ELSE [s EXCEPT !.errorQueue = Append(@, Item("error", n))]

\* captureMessage (lines 232-247)
captureMessage(s, n) ==
  IF s.sentryLoaded /\ s.sentry
  THEN [s EXCEPT !.sent = Append(@, Item("message", n))]
  ELSE [s EXCEPT !.errorQueue = Append(@, Item("message", n))]

\* lines 194-203: this.errorQueue.forEach(...) over the items q, then
\* this.errorQueue = []
RECURSIVE sendQueued(_, _)
sendQueued(s, q) ==
  IF q = <<>>
  THEN [s EXCEPT !.errorQueue = <<>>]
  ELSE sendQueued(IF Head(q).type = "error"
                  THEN captureError(s, Head(q).n)
                  ELSE captureMessage(s, Head(q).n),
                  Tail(q))

\* initSentry (lines 127-208); initOk: window.Sentry.init returns, else it
\* raises and the catch block resets sentryLoading
initSentry(s, initOk) ==
  IF s.sentryLoading \/ s.sentryLoaded THEN s
  ELSE IF ~s.sentry THEN s
  ELSE IF ~initOk THEN s
  ELSE IF s.errorQueue # <<>>
       THEN sendQueued([s EXCEPT !.sentryLoaded = TRUE], s.errorQueue)
       ELSE [s EXCEPT !.sentryLoaded = TRUE]

\* constructor (lines 100-112): the one place initSentry is called from
ErrorTrackingCtor(enabled, sdk, initOk) ==
  LET s == [enableErrorTracking |-> enabled, sentry |-> sdk,
            sentryLoaded |-> FALSE, sentryLoading |-> FALSE,
            errorQueue |-> <<>>, sent |-> <<>>, nCaptured |-> 0]
  IN  IF enabled THEN initSentry(s, initOk) ELSE s

\* vendor/sentry.min.js finishes loading after the object was constructed
SentryLoads ==
  /\ ~errorTracking.sentry
  /\ errorTracking' = [errorTracking EXCEPT !.sentry = TRUE]
  /\ UNCHANGED <<cacheManager, apiVars, hostVars, playerVars, identityVars, vastVars, cycle>>

\* errorTracking.captureError(error, context)
CaptureError ==
  /\ errorTracking.nCaptured < MaxCaptures
  /\ LET n == errorTracking.nCaptured + 1
     IN  errorTracking' = captureError([errorTracking EXCEPT !.nCaptured = n], n)
  /\ UNCHANGED <<cacheManager, apiVars, hostVars, playerVars, identityVars, vastVars, cycle>>

\* errorTracking.captureMessage(message, level, context)
CaptureMessage ==
  /\ errorTracking.nCaptured < MaxCaptures
  /\ LET n == errorTracking.nCaptured + 1
     IN  errorTracking' = captureMessage([errorTracking EXCEPT !.nCaptured = n], n)
  /\ UNCHANGED <<cacheManager, apiVars, hostVars, playerVars, identityVars, vastVars, cycle>>

(***************************************************************************)
(* CacheManager (package/js/cache-manager.js, lines 11-81)                 *)
(*                                                                         *)
(* cacheManager holds                                                      *)
(*   enableCaching  config.enableCaching                                   *)
(*   isRunning, cacheInterval   the fields (cacheInterval 0: null)         *)
(*   timers    the interval timers registered with setInterval and not     *)
(*             cleared, by their ids                                       *)
(*   nextId    the id the next setInterval returns                         *)
(*   updates   the calls of updateCache() made                             *)
(*   calls, ticks   the start()/stop() calls and the timer firings so far  *)
(***************************************************************************)
\* constructor (lines 12-19)
CacheManagerCtor(enabled) ==
  [enableCaching |-> enabled, isRunning |-> FALSE, cacheInterval |-> 0,
   timers |-> {}, nextId |-> 1, updates |-> 0, calls |-> 0, ticks |-> 0]

\* a start() without the guard of lines 48-51
NeverRunning(c) == FALSE

\* lines 48-51: if (this.isRunning) return
AlreadyRunning(c) == c.isRunning

\* start (lines 42-64)
start(c) ==
  IF ~c.enableCaching THEN c
  ELSE IF AlreadyRunning(c) THEN c
  ELSE [c EXCEPT !.isRunning = TRUE,
                 !.updates = @ + 1,
                 !.cacheInterval = c.nextId,
                 !.timers = @ \cup {c.nextId},
                 !.nextId = @ + 1]

\* stop (lines 69-81)
stop(c) ==
  IF ~c.isRunning THEN c
  ELSE [c EXCEPT !.isRunning = FALSE,
                 !.timers = IF c.cacheInterval # 0 THEN @ \ {c.cacheInterval} ELSE @,
                 !.cacheInterval = 0]

\* cacheManager.start(screenId)
CacheStart ==
  /\ cacheManager.calls < MaxCacheCalls
  /\ cacheManager' = start([cacheManager EXCEPT !.calls = @ + 1])
  /\ UNCHANGED <<errorTracking, apiVars, hostVars, playerVars, identityVars, vastVars, cycle>>

\* cacheManager.stop()
CacheStop ==
  /\ cacheManager.calls < MaxCacheCalls
  /\ cacheManager' = stop([cacheManager EXCEPT !.calls = @ + 1])
  /\ UNCHANGED <<errorTracking, apiVars, hostVars, playerVars, identityVars, vastVars, cycle>>

\* the interval timer id fires (lines 61-63): this.updateCache()
CacheTick(id) ==
  /\ id \in cacheManager.timers
  /\ cacheManager.ticks < MaxTicks
  /\ cacheManager' = [cacheManager EXCEPT !.ticks = @ + 1, !.updates = @ + 1]
  /\ UNCHANGED <<errorTracking, apiVars, hostVars, playerVars, identityVars, vastVars, cycle>>

\* error tracking switched off and no cache manager started
SideIdle ==
  /\ errorTracking = ErrorTrackingCtor(FALSE, FALSE, TRUE)
  /\ cacheManager = CacheManagerCtor(FALSE)

(***************************************************************************)
(* Specifications                                                          *)
(***************************************************************************)
\* the exchange client under every configuration, the player idle
InitApi ==
  /\ \E c \in 0..MaxCfgRetries, d \in RetryDelays : ApiInit(c, d)
  /\ HostInit
  /\ PlayerInit(0)
  /\ IdentityIdle
  /\ VastIdle
  /\ CycleIdle
  /\ SideIdle

\* the player under every document, the exchange client idle with its defaults
Init ==
  /\ ApiInit(0, 0)
  /\ HostInit
  /\ \E n \in 0..MaxUrls : PlayerInit(n)
  /\ IdentityIdle
  /\ VastIdle
  /\ CycleIdle
  /\ SideIdle

ApiNext ==
  \/ \E op \in Ops : ApiCall(op)
  \/ \E s \in Statuses, j \in BOOLEAN : FetchResponds(s, j)
  \/ FetchTimeout
  \/ \E m \in BOOLEAN : FetchFails(m)
  \/ BackoffElapsed
  \/ ApiReturn

SpecApi == InitApi /\ [][ApiNext]_vars

\* Every fetch settles (a response, a transport error, or the abort timer of
\* lines 43-44) and every backoff timer (lines 104, 134) fires.
SpecApiFair ==
  /\ SpecApi
  /\ WF_vars(\/ \E s \in Statuses, j \in BOOLEAN : FetchResponds(s, j)
             \/ FetchTimeout
             \/ \E m \in BOOLEAN : FetchFails(m))
  /\ WF_vars(BackoffElapsed)

\* the host trigger, beside the exchange client
TriggerNext ==
  \/ BroadSignPlay
  \/ RegisterHandler
  \/ \E op \in Ops : ApiCall(op)
  \/ \E s \in Statuses, j \in BOOLEAN : FetchResponds(s, j)
  \/ FetchTimeout
  \/ \E m \in BOOLEAN : FetchFails(m)
  \/ BackoffElapsed
  \/ ApiReturn

SpecTrigger == InitApi /\ [][TriggerNext]_vars

\* the player
Next ==
  \/ \E type \in MediaTypes : PreloadMedia(type)
  \/ \E len \in VideoLengths : PreloadReady(len)
  \/ VideoCanPlay
  \/ PreloadError
  \/ PreloadTimeout
  \/ \E vd \in VastDurations, hasDeal \in BOOLEAN : PlayPreloaded(vd, hasDeal)
  \/ \E p \in 1..MaxPlays : PixelLoad(p)
  \/ \E p \in 1..MaxPlays : PixelError(p)
  \/ \E p \in 1..MaxPlays : PixelTimeout(p)
  \/ \E p \in 1..MaxPlays : VideoPlay(p)
  \/ \E p \in 1..MaxPlays : VideoPlayRejected(p)
  \/ \E p \in 1..MaxPlays, pos \in Positions : VideoTimeUpdate(p, pos)
  \/ \E p \in 1..MaxPlays : VideoEnded(p)
  \/ \E p \in 1..MaxPlays : VideoError(p)
  \/ \E p \in 1..MaxPlays, ev \in Quartiles : QuartileTimer(p, ev)
  \/ \E p \in 1..MaxPlays : DisplayTimer(p)
  \/ Advance
  \/ \E p \in 1..MaxPlays, r \in ApiResults : ConfirmSettles(p, r)
  \/ Stop

Spec == Init /\ [][Next]_vars

\* The 5000 ms timer of a pending pixel fires (setTimeout, lines 625-628), and
\* a confirmPlayout request settles (makeRequest always ends).  Nothing is
\* assumed of the pixels themselves: they may never load nor fail.
SpecFair ==
  /\ Spec
  /\ \A p \in 1..MaxPlays : WF_vars(PixelTimeout(p))
  /\ \A p \in 1..MaxPlays : WF_vars(\E r \in ApiResults : ConfirmSettles(p, r))

\* the identity resolution under every host environment, the rest idle
InitIdentity ==
  /\ ApiInit(0, 0)
  /\ HostInit
  /\ PlayerInit(0)
  /\ BroadSignObject \in BroadSignObjects
  /\ parentWindow \in ParentWindows
  /\ screenIdParam \in ScreenIdParams
  /\ localStorage \in StoredIds
  /\ AdapterInit
  /\ VastIdle
  /\ CycleIdle
  /\ SideIdle

IdentityNext ==
  \/ HostInjects
  \/ \E f \in HostFields : HostPopulates(f)
  \/ GetScreenId
  \/ \E now \in Clock : GetScreenIdPackaged(now)

SpecIdentity == InitIdentity /\ [][IdentityNext]_vars

\* the parser under every document, the rest idle
InitVast ==
  /\ ApiInit(0, 0)
  /\ HostInit
  /\ PlayerInit(0)
  /\ IdentityIdle
  /\ xmlDoc \in XmlDocs
  /\ parsedData = NoData
  /\ vastResult = NoResult
  /\ CycleIdle
  /\ SideIdle

VastNext ==
  \/ Parse
  \/ \E prefs \in PreferenceLists : GetBestMediaFile(prefs)
  \/ GetDealId

SpecVast == InitVast /\ [][VastNext]_vars

\* the parser under every set of tracking elements, the rest idle
InitTracking ==
  /\ ApiInit(0, 0)
  /\ HostInit
  /\ PlayerInit(0)
  /\ IdentityIdle
  /\ xmlDoc \in TrackedDocs
  /\ parsedData = NoData
  /\ vastResult = NoResult
  /\ CycleIdle
  /\ SideIdle

SpecTracking == InitTracking /\ [][VastNext]_vars

\* error tracking under every configuration and every moment the SDK is there
InitErrorTracking ==
  /\ ApiInit(0, 0)
  /\ HostInit
  /\ PlayerInit(0)
  /\ IdentityIdle
  /\ VastIdle
  /\ CycleIdle
  /\ \E enabled \in BOOLEAN, sdk \in BOOLEAN, initOk \in BOOLEAN :
        errorTracking = ErrorTrackingCtor(enabled, sdk, initOk)
  /\ cacheManager = CacheManagerCtor(FALSE)

ErrorTrackingNext ==
  \/ SentryLoads
  \/ CaptureError
  \/ CaptureMessage

SpecErrorTracking == InitErrorTracking /\ [][ErrorTrackingNext]_vars

\* the SDK does become available
SpecErrorTrackingFair == SpecErrorTracking /\ WF_vars(SentryLoads)

\* the cache manager with caching on or off
InitCache ==
  /\ ApiInit(0, 0)
  /\ HostInit
  /\ PlayerInit(0)
  /\ IdentityIdle
  /\ VastIdle
  /\ CycleIdle
  /\ errorTracking = ErrorTrackingCtor(FALSE, FALSE, TRUE)
  /\ \E enabled \in BOOLEAN : cacheManager = CacheManagerCtor(enabled)

CacheNext ==
  \/ CacheStart
  \/ CacheStop
  \/ \E id \in 1..MaxCacheCalls : CacheTick(id)

SpecCache == InitCache /\ [][CacheNext]_vars

\* one cycle of the orchestrator under the host's trigger, the rest idle
InitCycle ==
  /\ ApiInit(0, 0)
  /\ HostInit
  /\ PlayerInit(0)
  /\ IdentityIdle
  /\ VastIdle
  /\ CycleIdle
  /\ SideIdle

CycleNext ==
  \/ BroadSignPlay
  \/ RegisterHandler
  \/ \E id \in CycleIds : ResolveIdentity(id)
  \/ \E r \in OfferResults : RequestOffer(r)
  \/ \E doc \in CycleDocs : Decode(doc)
  \/ PreloadSucceeds
  \/ PreloadFails
  \/ LifecycleTimeout
  \/ OnBroadSignReady
  \/ StartPlayback
  \/ Complete
  \/ ReadStatus

SpecCycle == InitCycle /\ [][CycleNext]_vars

\* A dispatched event and a handler call run the listener at once, and an
\* awaiting start() goes on when the pre-load promise has resolved: the event
\* loop runs both.
SpecCycleFair ==
  /\ SpecCycle
  /\ WF_vars(OnBroadSignReady)
  /\ WF_vars(StartPlayback)

(***************************************************************************)
(* Claims about the host display trigger                                   *)
(***************************************************************************)
ReadySignals == readyCalls + readyEvents

\* C1: however often the host invokes BroadSignPlay(), the application is
\* signalled (window.onBroadSignReady called, or 'broadsignready' dispatched)
\* exactly once, by the first invocation; later invocations signal nothing.
C1_SingleReadySignal ==
  /\ ReadySignals = (IF playCalls > 0 THEN 1 ELSE 0)
  /\ playCalled = (playCalls > 0)
\* the trigger invoked again after it has signalled the registered handler
C1_Witness ==
  /\ playCalls >= 2
  /\ readyCalls = 1

(***************************************************************************)
(* Claims about the player                                                 *)
(***************************************************************************)
\* C2: between two cleanup() runs, for every event name, however many
\* fireTrackingEvent(name) calls are made, one round of pixels is sent at
\* most: one request per tracking URL of the event.
C2_OnePixelRoundPerEvent ==
  \A e \in Events :
    player.beacons[e] = (IF player.trackingFired[e] /\ nUrls > 0 THEN 1 ELSE 0)
\* a second fireTrackingEvent('complete') (the display timer of call q) was
\* made while the first one (call p) still awaits its pixels
C2_Witness ==
  \E p, q \in 1..MaxPlays :
    /\ player.plays[p].pc = "complete"
    /\ player.plays[p].wait > 0
    /\ player.plays[q].pc = "confirm"
    /\ player.beacons["complete"] = 1

\* a session shows its video or image, and no cleanup() has run on it
C3_Showing(kinds) ==
  \E p \in 1..MaxPlays : player.plays[p].pc \in kinds /\ ~player.plays[p].abandoned

\* C3 (as claimed): while a session shows its media, midpoint is not fired
\* before firstQuartile nor thirdQuartile before midpoint, and while a video
\* plays with a duration <= 0 no quartile event is fired.
C3_QuartilesInOrder ==
  /\ C3_Showing({"playing", "image"}) =>
        /\ player.trackingFired["midpoint"] => player.trackingFired["firstQuartile"]
        /\ player.trackingFired["thirdQuartile"] => player.trackingFired["midpoint"]
  /\ (C3_Showing({"playing"}) /\ player.duration <= 0) =>
        \A e \in Quartiles : ~player.trackingFired[e]

\* what cleanup() leaves behind
CleanedUp(s) ==
  /\ ~s.isPlaying
  /\ s.videoElement = 0 /\ s.preloadedVideoElement = 0
  /\ s.imageElement = 0 /\ s.preloadedImageElement = 0
  /\ ~s.isMediaPreloaded /\ s.preloadedMediaFile = "none"
  /\ s.trackingFired = NoneFired

\* C9: when the playout confirmation of a call raises, the same step runs
\* cleanup() and resolves the call's promise: nothing is raised to the caller.
C9_ConfirmRaised(p) ==
  /\ player.plays[p].pc = "confirm"
  /\ player'.plays[p].confirm = "raised"
C9_ConfirmFailureSwallowed ==
  [][\A p \in 1..MaxPlays :
        C9_ConfirmRaised(p) => (player'.plays[p].pc = "resolved" /\ CleanedUp(player'))]_vars
\* a call that completed although its confirmation raised
C9_Witness ==
  \E p \in 1..MaxPlays :
    /\ player.plays[p].confirm = "raised"
    /\ player.plays[p].pc = "resolved"
    /\ player.completionRate = 100
    /\ CleanedUp(player)

\* C10: a pixel that settles never makes the call raise nor clears a fired
\* flag while the session goes on; after the impression the call goes on to
\* show the pre-loaded media; every awaited pixel is given up at last (by its
\* own timer, should it neither load nor fail), and a call awaiting the
\* pixels of 'complete' ends resolved.
C10_PixelSettles(p) == player'.plays[p].wait < player.plays[p].wait
C10_PixelStep(p) ==
  C10_PixelSettles(p) =>
    /\ player'.plays[p].pc \notin {"rejected", "failed"}
    /\ player'.plays[p].pc # "resolved" =>
          \A e \in Events : player.trackingFired[e] => player'.trackingFired[e]
    /\ (player.plays[p].pc = "impression" /\ player'.plays[p].pc # "impression") =>
          player'.plays[p].pc =
             (IF isVideo(player.preloadedMediaFile) THEN "attached"
              ELSE IF isImage(player.preloadedMediaFile) THEN "image"
              ELSE "resolved")
C10_PixelsNeverBlock ==
  /\ [][\A p \in 1..MaxPlays : C10_PixelStep(p)]_vars
  /\ \A p \in 1..MaxPlays : (player.plays[p].wait > 0) ~> (player.plays[p].wait = 0)
  /\ \A p \in 1..MaxPlays : (player.plays[p].pc = "complete") ~> (player.plays[p].pc = "resolved")
\* a video playing, its impression marked fired, after an impression pixel
\* was given up by its timer
C10_Witness ==
  \E p \in 1..MaxPlays :
    /\ player.plays[p].gaveUp
    /\ player.plays[p].pc = "playing"
    /\ player.isPlaying
    /\ player.trackingFired["impression"]

\* cleanup() has run on the session of call p
C11_CleanedUp(p) ==
  \/ player.plays[p].abandoned
  \/ player.plays[p].pc \in {"resolved", "rejected", "detached"}

\* C11 (as claimed): once cleanup() has run on a session, by its completion,
\* by an error or by stop(), none of its timers is pending any more.
C11_NoTimerAfterCleanup ==
  \A t \in player.timers : ~C11_CleanedUp(t.p)

\* the pre-load state is reset (cleanup(), lines 692-716)
C12_PreloadReset(s) ==
  /\ s.preloadedVideoElement = 0
  /\ s.preloadedImageElement = 0
  /\ s.preloadedMediaFile = "none"
  /\ ~s.isMediaPreloaded

\* C12 (as claimed): after a failed pre-load (timeout, error) the pre-load
\* state is reset, and after a rejected play() the session is cleaned up:
\* the element is detached and the pre-load state reset.
C12_FailureReleases ==
  /\ (player.preloadPc = "rejected" /\ player.preloadedMediaFile # "other") =>
        C12_PreloadReset(player)
  /\ \A p \in 1..MaxPlays : player.plays[p].pc = "playRejected" => CleanedUp(player)

\* C13: a second cleanup() right after a first one changes nothing, and what
\* cleanup() leaves has no media element, no pre-load state, isPlaying false
\* and every fired-event flag false.
C13_CleanupIdempotent ==
  /\ cleanup(cleanup(player)) = cleanup(player)
  /\ CleanedUp(cleanup(player))
  /\ C12_PreloadReset(cleanup(player))
\* stop() during the confirmation of an ended video, then the cleanup() of
\* the 'ended' handler: two cleanup() runs with nothing in between
C13_Witness ==
  /\ player.nPlays = 1
  /\ player.nStops = 1
  /\ player.currentMediaFile = "video"
  /\ player.plays[1].abandoned
  /\ player.plays[1].pc = "resolved"
  /\ CleanedUp(player)

\* no playPreloaded call is under way: the session is Idle, Preloading or
\* Preloaded
C14_NoSession(s) ==
  \A p \in 1..MaxPlays :
    \/ s.plays[p].pc \in {"none", "resolved", "rejected", "playRejected", "detached", "failed"}
    \/ s.plays[p].abandoned
\* the step fires a tracking event
C14_Fires == \E e \in Events : player'.trackingFired[e] /\ ~player.trackingFired[e]
\* the step is a playPreloaded call that raises
C14_PlayRaises ==
  /\ player'.nPlays = player.nPlays + 1
  /\ player'.plays[player'.nPlays].pc = "rejected"

\* C14 (as claimed): outside a playPreloaded call no step that begins and
\* ends with no session under way (a preloadMedia call, its success or
\* failure, a timer) fires a tracking event; and a playPreloaded call made
\* with no pre-loaded media raises, fires nothing and leaves currentDealId
\* and currentMediaFile as they were.
C14_NoEventBeforePlaying ==
  [][/\ (C14_NoSession(player) /\ C14_NoSession(player') /\ player'.nPlays = player.nPlays) =>
          ~C14_Fires
     /\ (/\ player'.nPlays = player.nPlays + 1
         /\ (~player.isMediaPreloaded \/ player.preloadedMediaFile = "none")) =>
          (C14_PlayRaises /\ ~C14_Fires)
     /\ C14_PlayRaises =>
          /\ player'.currentDealId = player.currentDealId
          /\ player'.currentMediaFile = player.currentMediaFile]_vars

\* the step fires 'start'
C15_StartFires == player'.trackingFired["start"] /\ ~player.trackingFired["start"]

\* the media of call p begins playing in the step: the 'play' event of its
\* attached video, or its image being put into the container
C15_BeganPlaying(p) ==
  \/ /\ player.plays[p].pc = "attached"
     /\ player'.plays[p].pc = "playing"
     /\ player'.container = player'.videoElement /\ player'.videoElement # 0
  \/ /\ player.plays[p].pc \in {"none", "impression"}
     /\ player'.plays[p].pc = "image"
     /\ player'.container = player'.imageElement /\ player'.imageElement # 0

\* C15: 'start' is fired only in a step where the media of a call begins
\* playing (the 'play' event of the attached video, the attachment of the
\* image), never in the step that fires the impression and awaits its pixels
\* nor in the one that attaches the video; isPlaying is set by then and the
\* impression has been fired (its flag is set, unless a cleanup() from
\* outside reset the flags under the call).
C15_ImpressionThenStart ==
  [][C15_StartFires =>
       /\ player'.isPlaying
       /\ \E p \in 1..MaxPlays :
             /\ C15_BeganPlaying(p)
             /\ player'.trackingFired["impression"] \/ player.plays[p].abandoned
       /\ \A p \in 1..MaxPlays :
             player.plays[p].pc # player'.plays[p].pc =>
                 player'.plays[p].pc \notin {"impression", "attached"}]_vars

\* a video plays after its impression pixel was awaited; an attached video has
\* not started
C15_Witness ==
  /\ nUrls = 1
  /\ player.plays[1].pc = "playing"
  /\ player.currentMediaFile = "video"
  /\ player.trackingFired["impression"] /\ player.trackingFired["start"]
  /\ player.beacons["impression"] = 1 /\ player.beacons["start"] = 1

\* the step sends the playout confirmation of call p
C16_Confirms(p) ==
  /\ Len(player'.confirmLog) = Len(player.confirmLog) + 1
  /\ player'.confirmLog[Len(player'.confirmLog)].play = p

\* C16 (as claimed): a step that sends the confirmation of a call p that was
\* not stopped comes after 'complete' was fired for it (its pixels were
\* awaited, or it is fired in the same step), the confirmation carries
\* completion rate 100, and the cleanup that ends the call runs after the
\* confirmation has settled (or, without a deal, after 'complete').
C16_CompleteThenConfirm ==
  [][\A p \in 1..MaxPlays :
       /\ (C16_Confirms(p) /\ ~player.plays[p].abandoned) =>
            /\ player.plays[p].pc = "complete" \/ player'.trackingFired["complete"]
            /\ player'.confirmLog[Len(player'.confirmLog)].rate = 100
            /\ player'.plays[p].pc = "confirm"
       /\ (/\ player.plays[p].pc \in {"playing", "image", "complete", "confirm"}
           /\ player'.plays[p].pc = "resolved") =>
            \/ player.plays[p].pc = "confirm"
            \/ player.currentDealId = 0]_vars

(***************************************************************************)
(* Claims about the screen identity                                        *)
(***************************************************************************)
\* the step is a getScreenId() call on the adapter of version ver
IdCalled(ver) ==
  /\ Len(idLog') = Len(idLog) + 1
  /\ idLog'[Len(idLog')].ver = ver

\* what the call of the step returned
IdReturned == idLog'[Len(idLog')].val

\* absent, empty or whitespace-only
C17_Empty(x) == x.k # "string" \/ x.v \in {"", " "}

\* the five sources in their order, as the environment holds them
C17_Sources ==
  LET o == getBroadSignObject(BroadSignObject, parentWindow)
  IN  <<o.frame_id, o.display_unit_id, o.player_id, screenIdParam, localStorage>>

\* the first source that is not empty, null when there is none
C17_FirstNonEmpty ==
  LET full == {i \in 1..5 : ~C17_Empty(C17_Sources[i])}
  IN  IF full = {} THEN Null
      ELSE C17_Sources[CHOOSE i \in full : \A j \in full : i <= j]

\* C17 (as claimed): a getScreenId() call that returns, returns the first of
\* frame_id, display_unit_id, player_id, the screen_id URL parameter and the
\* persisted value that is not absent, empty or whitespace-only.
C17_FirstNonEmptyWins ==
  [][(IdCalled("part_004") /\ IdReturned # Raised) => IdReturned = C17_FirstNonEmpty]_vars

\* every source is absent, empty or whitespace-only
C18_AllEmpty == \A i \in 1..5 : C17_Empty(C17_Sources[i])

\* the identifiers the environment supplies: the strings held by the five
\* sources, and what the host's own getScreenId function returns
C18_Supplied ==
  {C17_Sources[i] : i \in {j \in 1..5 : C17_Sources[j].k = "string"}} \cup
  ({BroadSignObject.getScreenId} \ {Undefined})

\* C18 (as claimed): a getScreenId() call that returns, of either version of
\* the adapter, returns null when every source is empty, and whatever it
\* returns other than null is an identifier supplied by a source, never one
\* made up by the adapter.
C18_NoSynthesizedIdentity ==
  [][\A ver \in {"part_004", "package"} :
       (IdCalled(ver) /\ IdReturned # Raised) =>
          /\ C18_AllEmpty => IdReturned = Null
          /\ IdReturned # Null => IdReturned \in C18_Supplied]_vars

\* C19: a getScreenId() call of part_004 reads the host afresh: whenever
\* BroadSignObject holds a non-empty frame_id at the call, the call returns it
\* as a string, whatever earlier calls returned; and the call changes nothing
\* of the adapter but its call counter.
C19_NoMemo ==
  [][IdCalled("part_004") =>
       /\ (BroadSignObject.state = "object" /\ NonEmpty(BroadSignObject.frame_id)) =>
             IdReturned = String(BroadSignObject.frame_id)
       /\ adapter'.screenId = adapter.screenId
       /\ adapter'.displayUnitId = adapter.displayUnitId
       /\ adapter'.playerId = adapter.playerId
       /\ adapter'.getScreenIdCallCount = adapter.getScreenIdCallCount + 1]_vars

\* a first call found the host fields empty and returned the stored value, the
\* host then populated frame_id, and the second call returned it
C19_Witness ==
  /\ Len(idLog) = 2
  /\ idLog[1] = [ver |-> "part_004", val |-> Str("S")]
  /\ idLog[2] = [ver |-> "part_004", val |-> Str("F")]
  /\ BroadSignObject.frame_id = Str("F")
  /\ BroadSignObject.display_unit_id = Undefined
  /\ BroadSignObject.player_id = Undefined
  /\ adapter.getScreenIdCallCount = 2
  /\ adapter.screenId = Null

\* C20 (as claimed): no getScreenId() call of part_004 ends by an exception,
\* whatever the host environment is.
C20_NeverRaises ==
  \A i \in 1..Len(idLog) : idLog[i].ver = "part_004" => idLog[i].val # Raised

(***************************************************************************)
(* Claims about the VAST parser                                            *)
(***************************************************************************)
\* C21: after parseMediaFiles no entry that is not progressive stands before a
\* progressive one, of two entries with the same delivery mode the earlier has
\* a bitrate (0 when missing) at least that of the later, and the list holds
\* each MediaFile element of the document exactly once.
C21_Sorted ==
  parsedData.status = "parsed" =>
    LET fs == parsedData.mediaFiles
        es == xmlDoc.mediaFiles
    IN  /\ \A i, j \in 1..Len(fs) :
             i < j => ~(fs[i].delivery # "progressive" /\ fs[j].delivery = "progressive")
        /\ \A i, j \in 1..Len(fs) :
             i < j /\ fs[i].delivery = fs[j].delivery =>
               OrZero(fs[i].bitrate) >= OrZero(fs[j].bitrate)
        /\ Len(fs) = Len(es)
        /\ {fs[i].url : i \in 1..Len(fs)} = 1..Len(es)
        /\ \A i \in 1..Len(fs) :
             /\ fs[i].delivery = es[fs[i].url].delivery
             /\ fs[i].type = es[fs[i].url].type
             /\ fs[i].bitrate = parseIntOrNull(es[fs[i].url].bitrate)

\* a parsed document whose elements stood in another order: a streaming file
\* first, then a progressive one of low and one of high bitrate
C21_Witness ==
  /\ parsedData.status = "parsed"
  /\ Len(xmlDoc.mediaFiles) = MaxMediaFiles
  /\ xmlDoc.mediaFiles[1].delivery = "streaming"
  /\ xmlDoc.mediaFiles[1].bitrate = "5000"
  /\ xmlDoc.mediaFiles[2].delivery = "progressive"
  /\ xmlDoc.mediaFiles[2].bitrate = "800"
  /\ xmlDoc.mediaFiles[3].delivery = "progressive"
  /\ xmlDoc.mediaFiles[3].bitrate = "1200"
  /\ parsedData.mediaFiles[1].url = 3
  /\ parsedData.mediaFiles[2].url = 2
  /\ parsedData.mediaFiles[3].url = 1

\* the candidate getBestMediaFile is to return from the list fs for prefs: for
\* the first preferred type that some candidate has the earliest candidate of
\* that type, otherwise the first candidate
C22_Chosen(f, fs, prefs) ==
  \E i \in 1..Len(fs) :
    /\ f = fs[i]
    /\ \/ \E n \in 1..Len(prefs) :
            /\ fs[i].type = prefs[n]
            /\ \A m \in 1..(n - 1) : \A j \in 1..Len(fs) : fs[j].type # prefs[m]
            /\ \A j \in 1..(i - 1) : fs[j].type # prefs[n]
       \/ /\ \A n \in 1..Len(prefs) : \A j \in 1..Len(fs) : fs[j].type # prefs[n]
          /\ i = 1

\* C22: getBestMediaFile returns, for the first preferred type that a
\* candidate has, the earliest candidate of that type in sorted order, else the
\* first candidate, and null when there are no candidates; for video
\* candidates progressive/1200, streaming/5000, progressive/800 and the default
\* preferences it returns progressive/1200.
C22_BestMediaFile ==
  vastResult.op = "getBestMediaFile" =>
    LET r == vastResult.best
        fs == parsedData.mediaFiles
        es == xmlDoc.mediaFiles
    IN  /\ fs = <<>> => r.k = "null"
        /\ fs # <<>> => r.k = "file" /\ C22_Chosen(r.file[1], fs, vastResult.prefs)
        /\ (/\ parsedData.status = "parsed"
            /\ Len(es) = MaxMediaFiles
            /\ \A i \in 1..Len(es) : es[i].type = "video/mp4"
            /\ <<es[1].delivery, es[2].delivery, es[3].delivery>>
                 = <<"progressive", "streaming", "progressive">>
            /\ <<es[1].bitrate, es[2].bitrate, es[3].bitrate>> = <<"1200", "5000", "800">>
            /\ vastResult.prefs = <<"video/mp4", "image/jpeg", "image/png">>)
           => r.k = "file" /\ r.file[1].delivery = "progressive" /\ r.file[1].bitrate = {1200}

\* what does hold: the choice among candidates is as C22 says, and without
\* candidates the answer is null or undefined
C22_NullOrUndefined ==
  vastResult.op = "getBestMediaFile" =>
    LET r == vastResult.best
        fs == parsedData.mediaFiles
    IN  /\ fs = <<>> => r.k \in {"null", "undefined"}
        /\ fs # <<>> => r.k = "file" /\ C22_Chosen(r.file[1], fs, vastResult.prefs)

\* the deal id the Extension block of the document gives, and the one the
\* JSON of its AdParameters gives
C23_ExtensionDeal == IF xmlDoc.extensions = "deal" THEN Str("E") ELSE Null

C23_ParametersDeal ==
  CASE xmlDoc.adParameters = "deal_id" -> Str("A")
    [] xmlDoc.adParameters = "dealId" -> Str("B")
    [] OTHER -> Null

\* C23: the deal id is looked for in the Extension block and in the JSON of
\* AdParameters, and the first that is not null wins: getDealId returns the
\* Extension's deal id when there is one, else the deal_id / dealId of the
\* AdParameters JSON, also for a document without Extensions element.
C23_DealId ==
  vastResult.op = "getDealId" /\ parsedData.status = "parsed" =>
    vastResult.deal = IF C23_ExtensionDeal # Null THEN C23_ExtensionDeal
                      ELSE C23_ParametersDeal

\* what does hold: the claim for the documents that have an Extensions element
C23_WithExtensions ==
  vastResult.op = "getDealId" /\ parsedData.status = "parsed" /\ xmlDoc.extensions # "" =>
    vastResult.deal = IF C23_ExtensionDeal # Null THEN C23_ExtensionDeal
                      ELSE C23_ParametersDeal

\* C24: parse raises exactly when the document is unparsable or its root
\* structure (the VAST element) is absent; a document that lacks optional
\* parts (Ad, creative, MediaFile, Extensions) is parsed without error, the
\* missing parts null or empty.
C24_RaisesIffNoRoot ==
  parsedData.status # "none" =>
    /\ parsedData.status = "raised" <=> (~xmlDoc.wellFormed \/ ~xmlDoc.vast)
    /\ xmlDoc.wellFormed /\ xmlDoc.vast =>
         /\ parsedData.ad = xmlDoc.ad
         /\ parsedData.creative = xmlDoc.creative
         /\ Len(parsedData.mediaFiles) = Len(xmlDoc.mediaFiles)
         /\ xmlDoc.extensions = "" => parsedData.customExtensions.dealId = Null

\* what does hold: parse raises exactly for the text that is no XML
C24_RaisesIffUnparsable ==
  parsedData.status # "none" =>
    (parsedData.status = "raised" <=> ~xmlDoc.wellFormed)

C26_DescriptorOrDefault ==
  [][\A p \in 1..MaxPlays :
       player.plays[p].pc # "image" /\ player'.plays[p].pc = "image" =>
         LET D == IF player'.plays[p].vd # 0 THEN player'.plays[p].vd
                  ELSE DefaultImageSeconds
         IN  \A ev \in Quartiles \cup {"done"} :
               [p |-> p, ev |-> ev, rem |-> (D * 1000 * Percent(ev)) \div 100]
                 \in player'.timers]_vars

\* what does hold: the claim for the calls that give a duration or find
\* this.duration at 0
C26_Fresh ==
  [][\A p \in 1..MaxPlays :
       /\ player.plays[p].pc # "image"
       /\ player'.plays[p].pc = "image"
       /\ (player.duration = 0 \/ player'.plays[p].vd # 0)
       => LET D == IF player'.plays[p].vd # 0 THEN player'.plays[p].vd
                   ELSE DefaultImageSeconds
          IN  \A ev \in Quartiles \cup {"done"} :
                [p |-> p, ev |-> ev, rem |-> (D * 1000 * Percent(ev)) \div 100]
                  \in player'.timers]_vars

(***************************************************************************)
(* Claims about the request headers                                        *)
(***************************************************************************)
\* C27: every request the API client issues (offer request, offer response,
\* playout confirmation, cacheable-assets request, and each retry of them)
\* carries the header Authorization: Bearer <apiKey>.
C27_BearerOnEveryRequest ==
  fetchCount > 0 =>
    /\ <<"Authorization", Bearer(ApiKey)>> \in sentHeaders
    /\ \A h \in sentHeaders : h[1] = "Authorization" => h[2] = Bearer(ApiKey)

\* the second retry of a cacheable-assets request is in flight
C27_Witness ==
  /\ apiPc = "fetch"
  /\ apiOp = "getCacheableAssets"
  /\ retryCount = 2
  /\ <<"Authorization", Bearer(ApiKey)>> \in sentHeaders

C30_Reason(step) ==
  CASE step = "identity" -> {"no identity"}
    [] step = "offer" -> {"no offer", "server failure"}
    [] step = "decode" -> {"decode failed"}
    [] OTHER -> {"preload failed"}

\* C30: when the identity is unavailable, the offer request yields no offer
\* (a 404 included) or decoding fails, the orchestrator sets Skip with the
\* matching reason and stops: the failed step is the last one made in the
\* cycle, nothing is pre-loaded or played after it.
C30_SkipAndStop ==
  LET n == Len(cycle.log)
  IN  /\ \A i \in 1..(n - 1) : cycle.log[i].ok
      /\ (n > 0 /\ ~cycle.log[n].ok) =>
           /\ cycle.status = "skip"
           /\ cycle.reason \in C30_Reason(cycle.log[n].step)
           /\ cycle.pc = "stopped"
           /\ cycle.starts = 0
      /\ \A i \in 1..n : \A j \in 1..n : cycle.log[i].step = cycle.log[j].step => i = j

\* the document of the offer was no XML: the cycle ended after three steps
C30_Witness ==
  /\ Len(cycle.log) = 3
  /\ cycle.log[3] = [step |-> "decode", ok |-> FALSE]
  /\ cycle.status = "skip"
  /\ cycle.reason = "decode failed"

\* the step name is in the log of the cycle as succeeded
C31_Succeeded(c, name) == \E i \in 1..Len(c.log) : c.log[i] = [step |-> name, ok |-> TRUE]

\* C31: Ready is set in the step in which the pre-load succeeds and in no
\* other; a trigger that comes while the pre-load is in flight starts nothing
\* until the pre-load has succeeded; and when the maximum lifecycle duration
\* elapses first the cycle ends with a Skip and never plays.
C31_ReadyWhenPreloaded ==
  [][/\ (cycle'.status = "ready" /\ cycle.status # "ready")
          <=> (~C31_Succeeded(cycle, "preload") /\ C31_Succeeded(cycle', "preload"))
     /\ cycle'.starts > cycle.starts =>
          /\ C31_Succeeded(cycle, "preload")
          /\ cycle.status = "ready"
          /\ cycle.trigger
     /\ (cycle.status = "skip" /\ cycle.reason = "timeout") =>
          /\ cycle.starts = 0
          /\ cycle'.starts = 0
          /\ cycle'.pc = "stopped"
          /\ cycle'.status = "skip"]_vars

\* the trigger was taken while the pre-load was in flight, and the lifecycle
\* timer ended the cycle before the pre-load was done
C31_Witness ==
  /\ cycle.trigger
  /\ cycle.status = "skip"
  /\ cycle.reason = "timeout"
  /\ Len(cycle.log) = 3
  /\ cycle.log[3].step = "decode"

(***************************************************************************)
(* Claims about the configured number of retries                           *)
(***************************************************************************)

\* every fetch attempt of the running operation met a 5xx response with a
\* readable body
C32_Only5xx ==
  \A i \in 1..Len(outcomes) :
    outcomes[i].kind = "http" /\ outcomes[i].status >= 500 /\ outcomes[i].json

\* C32: an operation that met a 5xx response at every attempt and has ended was
\* attempted exactly config.maxRetries + 1 times, for every configured
\* maxRetries >= 0 (with 0: once).
C32_AttemptsAsConfigured ==
  (apiPc = "done" /\ apiResult = "raised" /\ C32_Only5xx)
    => fetchCount = config.maxRetries + 1

(***************************************************************************)
(* Claims about the playout confirmation, the pre-load and the progress    *)
(***************************************************************************)

\* the confirmations sent so far for deal d
C33_Sent(d) == {i \in 1..Len(player.confirmLog) : player.confirmLog[i].deal = d}

\* C33: whatever triggers, media events and timer expiries come, the playout
\* confirmation of a deal is sent at most once.
C33_ConfirmedOnce ==
  \A d \in 1..MaxPlays : Cardinality(C33_Sent(d)) <= 1

\* C34: a pre-load in flight ends only by settling, as resolved or rejected; a
\* settled pre-load changes no more until the next preloadMedia; in the step
\* that settles it isMediaPreloaded is true exactly when the readiness event
\* came first; and isMediaPreloaded becomes true in no other step.
C34_SettlesOnce ==
  [][/\ (player.preloadPc = "loading" /\ player'.preloadPc # "loading") =>
          /\ player'.preloadPc \in {"resolved", "rejected"}
          /\ player'.isMediaPreloaded <=> player'.preloadPc = "resolved"
     /\ (player.preloadPc \in {"resolved", "rejected"}
           /\ player'.preloadPc # player.preloadPc) =>
          player'.nPreloads = player.nPreloads + 1
     /\ (player'.isMediaPreloaded /\ ~player.isMediaPreloaded) =>
          (player.preloadPc = "loading" /\ player'.preloadPc = "resolved")]_vars

\* C35: the completion rate is an integer from 0 to 100 in every reachable
\* state, for every descriptor duration, media length and reported position.
C35_RateInRange == player.completionRate \in 0..100

\* C36: when a video ends ('complete' is fired), every quartile whose threshold
\* the reported positions have reached has been fired already; the progress
\* last reported is in completionRate.  Stated for the first call on a player,
\* where nothing but handleVideoProgress of that call has written it.
C36_NoQuartileSkipped ==
  [][(/\ player.nPlays = 1
      /\ player.plays[1].pc = "playing"
      /\ ~player.plays[1].abandoned
      /\ player' = MediaEnded(player, 1)) =>
        \A ev \in Quartiles :
           Percent(ev) <= player.completionRate => player.trackingFired[ev]]_vars

(***************************************************************************)
(* Claims about the tracking events                                        *)
(***************************************************************************)

\* the URLs kept for event e
C37_Kept(e) == {parsedData.trackingEvents[e][k] : k \in 1..Len(parsedData.trackingEvents[e])}

\* C37: parseTrackingEvents keeps every tracking URL of the document: the URL of
\* each Tracking element under its event, also under "impression" when
\* Impression elements are present, and the URL of each Impression element.
C37_EveryUrlKept ==
  parsedData.status = "parsed" =>
    /\ \A i \in 1..Len(xmlDoc.tracking) : Url("T", i) \in C37_Kept(xmlDoc.tracking[i])
    /\ \A j \in 1..xmlDoc.impressions : Url("I", j) \in C37_Kept("impression")

(***************************************************************************)
(* Claims about what a session leaves behind                               *)
(***************************************************************************)

\* the duration the media pre-loaded for the coming session has itself: the
\* length of a video, none for an image
C38_OwnLength == IF isVideo(player.preloadedMediaFile) THEN player.videoLen ELSE 0

\* the session before the coming one showed a video or an image to its end,
\* and cleanup() has run for it
C38_Ended ==
  /\ player.nPlays >= 1
  /\ player.plays[player.nPlays].pc = "resolved"
  /\ player.currentMediaFile \in {"video", "image"}

\* C38: a session that starts after the cleanup() of the one before has the
\* deal it is given, the duration of its own descriptor or else of its own
\* media, and no completion yet: nothing of the session before.
C38_NothingLeftBehind ==
  [][\A vd \in VastDurations, hasDeal \in BOOLEAN :
       (/\ C38_Ended
        /\ player.isMediaPreloaded
        /\ PlayPreloaded(vd, hasDeal)) =>
         /\ player'.currentDealId = (IF hasDeal THEN player'.nPlays ELSE 0)
         /\ player'.duration = (IF vd # 0 THEN vd ELSE C38_OwnLength)
         /\ player'.completionRate = 0]_vars

(***************************************************************************)
(* Claims about error tracking and the cache manager                       *)
(***************************************************************************)

\* item n is in the queue; item n was handed to the SDK at position k of sent
C39_Queued(n) ==
  \E k \in 1..Len(errorTracking.errorQueue) : errorTracking.errorQueue[k].n = n
C39_SentAt(n) == {k \in 1..Len(errorTracking.sent) : errorTracking.sent[k].n = n}

\* C39: every captured item is handed to the SDK at most once and in the order
\* of capture, and, with error tracking on, an item queued while the SDK is not
\* there yet is handed to the SDK and leaves the queue once the SDK has become
\* available: none stays queued forever.
C39_QueuedAreDelivered ==
  /\ [](/\ \A n \in 1..MaxCaptures : Cardinality(C39_SentAt(n)) <= 1
        /\ \A k \in 1..Len(errorTracking.sent) - 1 :
              errorTracking.sent[k].n < errorTracking.sent[k + 1].n)
  /\ \A n \in 1..MaxCaptures :
        (errorTracking.enableErrorTracking /\ ~errorTracking.sentry /\ C39_Queued(n))
          ~> (C39_SentAt(n) # {} /\ ~C39_Queued(n))

\* C40: at most one interval timer is registered, it is the one in
\* cacheInterval, and isRunning is true exactly when there is one; a start()
\* while running and a stop() while not running change nothing but the count of
\* calls; and only a running cache manager makes a periodic update.
C40_OneTimer ==
  /\ [](/\ Cardinality(cacheManager.timers) <= 1
        /\ cacheManager.isRunning <=> cacheManager.timers # {}
        /\ cacheManager.timers # {} => cacheManager.timers = {cacheManager.cacheInterval}
        /\ cacheManager.isRunning => cacheManager.enableCaching)
  /\ [][/\ (CacheStart /\ cacheManager.isRunning) =>
             cacheManager' = [cacheManager EXCEPT !.calls = @ + 1]
        /\ (CacheStop /\ ~cacheManager.isRunning) =>
             cacheManager' = [cacheManager EXCEPT !.calls = @ + 1]
        /\ cacheManager'.ticks > cacheManager.ticks =>
             (cacheManager.isRunning /\ cacheManager'.updates = cacheManager.updates + 1)
        /\ (~cacheManager.isRunning /\ cacheManager'.updates > cacheManager.updates) =>
             (cacheManager'.isRunning /\ CacheStart)]_vars

\* started, started again while running, stopped and started anew: the second
\* timer is the only one, and it has fired
C40_Witness ==
  /\ cacheManager.calls = 4
  /\ cacheManager.isRunning
  /\ cacheManager.cacheInterval = 2
  /\ cacheManager.ticks >= 2
  /\ cacheManager.updates = cacheManager.ticks + 2

(***************************************************************************)
(* Claims about the exchange client                                        *)
(***************************************************************************)
LastOutcome == outcomes[Len(outcomes)]
Is5xx(o) == o.kind = "http" /\ o.status >= 500
Is4xx(o) == o.kind = "http" /\ o.status >= 400 /\ o.status < 500
ApiEnded == apiPc \in {"done", "idle"} /\ Len(outcomes) > 0

\* C4 (as claimed): an operation whose last response is a 404 or another 4xx
\* ends with a returned no-offers / client-error object, never with a raised
\* error, whether the response body is JSON or not.
C4_ClientErrorsNeverRaise ==
  (ApiEnded /\ Is4xx(LastOutcome)) =>
     /\ apiResult = (IF LastOutcome.status = 404 THEN "noOffersAvailable" ELSE "clientError")
     /\ apiError = "none"

\* C5 (as claimed): when every attempt met a 5xx response the operation raises,
\* and only once maxRetries retries were made; and an operation that ends by
\* raising after an HTTP response met a 5xx with the retry budget exhausted.
C5_Only5xxExhaustionRaises ==
  /\ (ApiEnded /\ \A i \in 1..Len(outcomes) : Is5xx(outcomes[i])) =>
        (apiResult = "raised" /\ fetchCount = maxRetries + 1)
  /\ (ApiEnded /\ apiResult = "raised" /\ LastOutcome.kind = "http") =>
        (Is5xx(LastOutcome) /\ retryCount = maxRetries)

\* C6: one makeRequest call makes at most maxRetries + 1 fetch attempts, one
\* backoff per retry whichever path asked for it, none after a 4xx response;
\* and a call that has started always ends (returns or raises).
C6_AttemptsBounded ==
  /\ fetchCount <= maxRetries + 1
  /\ Len(delays) = retryCount + (IF apiPc = "backoff" THEN 1 ELSE 0)
  /\ apiOp # "none" => fetchCount = retryCount + 1
  /\ \A i \in 1..Len(outcomes) :
        Is4xx(outcomes[i]) => (i = Len(outcomes) /\ apiPc \in {"done", "idle"})
  /\ apiPc = "done" => apiResult # "none"
C8_BackoffDoubles ==
  /\ Len(delays) > 0 => delays[1] = retryDelay
  /\ \A k \in 1..(Len(delays) - 1) : delays[k + 1] = 2 * delays[k]
  /\ Len(delays) <= maxRetries
\* two backoffs, one asked for by a 5xx response and one by a transport failure
C8_Witness ==
  /\ Len(delays) >= 2
  /\ Is5xx(outcomes[1])
  /\ outcomes[2].kind = "network"
====
